---------------------------- MODULE Spec2Model ----------------------------
(***************************************************************************)
(* A model of the document-to-report pipeline of ai-book-reader:          *)
(*   cli.py                  main, process_chunks,                         *)
(*                           generate_interval_summaries                   *)
(*   src/toc_extractor.py    TOCExtractor.extract_toc, save_toc            *)
(*   src/document_processor.py DocumentProcessor.split_text                *)
(*   src/chunk_analyzer.py   ChunkAnalyzer.analyze_chunk, load_all_results *)
(*   src/summary_generator.py SummaryGenerator.generate_interval_summary,  *)
(*                           generate_meta_summary                         *)
(*   src/output_integrator.py OutputIntegrator.integrate_output and the    *)
(*                           functions it calls                            *)
(*   src/utils.py            save_json, save_markdown                      *)
(*                                                                         *)
(* Texts are sequences of string tokens, Python lists are sequences, and   *)
(* Python's 0-based positions are kept as numbers: position i of a list    *)
(* is element i+1 of the sequence.                                         *)
(***************************************************************************)
EXTENDS Integers, Sequences, FiniteSets, TLC

(***************************************************************************)
(* Bounds of the model.                                                    *)
(***************************************************************************)
MaxChunks == 3
MaxInterval == 3
MaxWorkers == 2
MaxSummaries == 3
MaxWrites == 3
MaxStageChunks == 2
MaxSections == 2
MaxCalls == 2
MaxKeyNumber == 10000
MaxKeyGap == 2
MaxChunkSize == 2

(***************************************************************************)
(* Program constants.                                                      *)
(***************************************************************************)
SUMMARY_INTERVAL == 5

VARIABLES
    max_workers,                \* argument of both parallel stages: pool size
    \* ---- generate_interval_summaries (cli.py) ----
    chunks_results,             \* argument: the ordered chunk records
    interval,                   \* argument: chunks per boundary
    g_pc,                       \* "group" | "collect" | "done"
    g_i,                        \* the loop's position i (next record to absorb)
    interval_knowledge,         \* the accumulator
    interval_knowledge_groups,  \* the closed groups, in closing order
    g_task,                     \* futures: idx -> the submitted work item
                                \* (llm_failed: history, llm.invoke raised)
    summaries,                  \* (idx, summary) pairs in completion order
    g_ret,                      \* the returned list of summaries
    summary_dir,                \* the summaries directory: file key -> text
    flush_log,                  \* history: the flush evaluations of the loop
    gen_calls,                  \* history: idx -> generate_interval_summary calls
    \* ---- process_chunks (cli.py), ChunkAnalyzer ----
    chunks,                     \* argument: the chunk texts
    depth,                      \* ChunkAnalyzer.depth
    p_pc,                       \* "submit" | "collect" | "done"
    p_task,                     \* futures: chunk_idx -> the submitted work item
    results,                    \* the records in completion order
    p_ret,                      \* the returned list of records
    knowledge_dir,              \* the knowledge directory: file key -> record
    \* ---- OutputIntegrator._sliding_window_integration ----
    interval_summaries,         \* argument: the interval summaries
    s_pc,                       \* "start" | "loop" | "done"
    s_i,                        \* the loop's position i
    integrated_sections,        \* the sections appended so far
    s_ret,                      \* the returned list of sections
    llm_calls,                  \* history: the merge calls made
    \* ---- one analyze_chunk call, followed through process_chunks ----
    a_pc,                       \* "call" | "returned" | "collected"
    a_chunk_idx,                \* argument: the chunk's index
    a_outcome,                  \* history: how the call ran
    a_future,                   \* the future's result: returned or raised
    \* ---- ChunkAnalyzer.load_all_results over a store of records ----
    l_pc,                       \* "write" | "loaded" | "reloaded"
    l_writes,                   \* history: the number of writes so far
    l_ret,                      \* what load_all_results returned
    l_again,                    \* what the next call returned
    \* ---- SummaryGenerator.generate_meta_summary ----
    ms_pc,                      \* "call" | "returned" | "raised"
    ms_ret,                     \* the returned meta-summary
    ms_kind,                    \* history: how the call ran
    meta_dir,                   \* the meta-summary directory: file key -> text
    meta_calls,                 \* history: the prompts of the Completer calls
    \* ---- OutputIntegrator.integrate_output ----
    o_pc,                       \* "wait" | "call" | "sliding" | "done"
    toc_dir,                    \* the toc directory: file key -> text
    toc_content,                \* the toc read, or its placeholder
    meta_summary_content,       \* the meta-summary read, or its placeholder
    o_ret,                      \* the returned report text
    integrated_dir,             \* the integrated directory: file key -> text
    o_intro,                    \* history: how the introduction call ran
    \* ---- main (cli.py) ----
    m_pc,                       \* the statement of main that runs
    chunk_size,                 \* --chunk-size
    chunk_overlap,              \* --overlap
    work_log,                   \* history: the work done so far by the run
    p_interrupt,                \* history: whether KeyboardInterrupt arrived, and
                                \* the work items not started at that time
    \* ---- OutputIntegrator._assemble_final_content, called repeatedly ----
    r_pc,                       \* "call"
    r_toc_content,              \* argument
    r_introduction,             \* argument
    r_sections,                 \* argument integrated_sections
    r_meta_summary,             \* argument
    r_clock,                    \* the wall clock at the last call
    r_outs,                     \* the returned texts, in call order
    \* ---- artifact keys and the order of a listing ----
    k_pc,                       \* "save" | "list" | "done"
    k_kind,                     \* "chunk" | "interval"
    k_nums,                     \* the two numbers written, the smaller first
    k_listing,                  \* the sorted listing of the directory
    \* ---- SummaryGenerator.generate_final_summary, called repeatedly ----
    f_pc,                       \* "call"
    f_log,                      \* history: the calls made so far
    \* ---- PDFToMarkdownConverter._make_request_with_retry ----
    PDF_API_RETRY_COUNT,        \* the configured number of attempts
    q_pc,                       \* "request" | "sleep" | "returned" | "raised"
    q_kind,                     \* argument: which request is made
    q_attempt,                  \* the loop's variable `attempt`
    q_last_exception,           \* last_exception
    q_log,                      \* history: how each attempt ended
    q_ret,                      \* the response returned or exception raised
    \* ---- PDFToMarkdownConverter._wait_for_completion ----
    PDF_API_TIMEOUT,            \* the configured timeout, in units of 5 s
    w_pc,                       \* "query" | "sleep10" | "sleep5" | "returned"
                                \* | "raised"
    w_elapsed,                  \* time.time() - start_time, in units of 5 s;
                                \* every value above the timeout is kept as
                                \* PDF_API_TIMEOUT + 1
    w_raised,                   \* the message of the exception raised
    w_late,                     \* history: queries begun after the timeout had
                                \* passed (counted up to 2)
    w_errored,                  \* history: a query ended in the except branch
    \* ---- UnifiedPDFConverter ----
    u_pc,                       \* "ready"
    use_local,                  \* self.use_local
    local_options,              \* self.local_options: option name -> value
    server_options,             \* self.server_options: option name -> value
    converter,                  \* self.converter: the instance held
    u_made,                     \* the calls made so far, the construction
                                \* included; the id of the next instance
    u_last                      \* history: the last call and the state before

gvars == <<chunks_results, interval, g_pc, g_i, interval_knowledge,
           interval_knowledge_groups, g_task, summaries, g_ret, summary_dir,
           flush_log, gen_calls>>

pvars == <<chunks, depth, p_pc, p_task, results, p_ret, knowledge_dir>>

svars == <<interval_summaries, s_pc, s_i, integrated_sections, s_ret, llm_calls>>

avars == <<a_pc, a_chunk_idx, a_outcome, a_future>>

lvars == <<l_pc, l_writes, l_ret, l_again>>

msvars == <<ms_pc, ms_ret, ms_kind, meta_dir, meta_calls>>

ovars == <<o_pc, toc_dir, toc_content, meta_summary_content, o_ret,
           integrated_dir, o_intro>>

cvars == <<chunk_size, chunk_overlap, work_log>>

rvars == <<r_pc, r_toc_content, r_introduction, r_sections, r_meta_summary,
           r_clock, r_outs>>

kvars == <<k_pc, k_kind, k_nums, k_listing>>

fvars == <<f_pc, f_log>>

qvars == <<PDF_API_RETRY_COUNT, q_pc, q_kind, q_attempt, q_last_exception,
           q_log, q_ret>>

wvars == <<PDF_API_TIMEOUT, w_pc, w_elapsed, w_raised, w_late, w_errored>>

uvars == <<u_pc, use_local, local_options, server_options, converter,
           u_made, u_last>>

zvars == <<fvars, qvars, wvars, uvars>>

yvars == <<cvars, p_interrupt, rvars, kvars, zvars>>

\* the variables of the functions modelled further down
xvars == <<avars, lvars, msvars, ovars, m_pc, yvars>>

\* for the actions of each of these functions: the variables of the others
a_rest == <<lvars, msvars, ovars, m_pc, yvars>>
l_rest == <<avars, msvars, ovars, m_pc, yvars>>
ms_rest == <<avars, lvars, ovars, m_pc, yvars>>
o_rest == <<avars, lvars, msvars, m_pc, yvars>>
m_rest == <<avars, lvars, yvars>>
c_rest == <<avars, lvars, msvars, p_interrupt, rvars, kvars, zvars>>
i_rest == <<avars, lvars, msvars, ovars, cvars, rvars, kvars, zvars>>
r_rest == <<avars, lvars, msvars, ovars, m_pc, cvars, p_interrupt, kvars, zvars>>
k_rest == <<avars, lvars, msvars, ovars, m_pc, cvars, p_interrupt, rvars, zvars>>

early == <<avars, lvars, msvars, ovars, m_pc, cvars, p_interrupt, rvars, kvars>>
f_rest == <<early, qvars, wvars, uvars>>
q_rest == <<early, fvars, wvars, uvars>>
w_rest == <<early, fvars, qvars, uvars>>
u_rest == <<early, fvars, qvars, wvars>>

vars == <<max_workers, gvars, pvars, svars, xvars>>

(***************************************************************************)
(* Sequences and texts.                                                    *)
(***************************************************************************)
RECURSIVE Flatten(_)
Flatten(ss) == IF ss = <<>> THEN <<>> ELSE Head(ss) \o Flatten(Tail(ss))

\* hay holds a, and after it b (two occurrences that do not overlap)
ContainsInOrder(hay, a, b) ==
    \E s \in 1..(Len(hay) + 1), t \in 1..(Len(hay) + 1) :
        /\ s + Len(a) <= t
        /\ t + Len(b) - 1 <= Len(hay)
        /\ SubSeq(hay, s, s + Len(a) - 1) = a
        /\ SubSeq(hay, t, t + Len(b) - 1) = b

\* The decimal digits of n >= 0, most significant first, as text.
RECURSIVE Digits(_)
Digits(n) ==
    IF n < 10 THEN <<ToString(n)>>
    ELSE Append(Digits(n \div 10), ToString(n % 10))

\* f"{n:0{width}d}": zero-padded to at least width digits.
ZeroPad(n, width) ==
    LET d == Digits(n)
    IN  IF Len(d) >= width THEN d
        ELSE [p \in 1..(width - Len(d)) |-> "0"] \o d

\* sorted(pairs, key=lambda x: x[0]): a stable insertion sort on the first
\* component.
RECURSIVE InsertByKey(_, _)
InsertByKey(sorted, x) ==
    IF sorted = <<>> THEN <<x>>
    ELSE IF x[1] < sorted[Len(sorted)][1]
         THEN Append(InsertByKey(SubSeq(sorted, 1, Len(sorted) - 1), x),
                     sorted[Len(sorted)])
         ELSE Append(sorted, x)

RECURSIVE SortedByKeyFrom(_, _)
SortedByKeyFrom(done, rest) ==
    IF rest = <<>> THEN done
    ELSE SortedByKeyFrom(InsertByKey(done, Head(rest)), Tail(rest))

SortedByKey(pairs) == SortedByKeyFrom(<<>>, pairs)

(***************************************************************************)
(* utils.save_markdown: the text written for `content`.                    *)
(***************************************************************************)
\* datetime.now().strftime(...): the time of the write, kept as one token
Now == "%Y-%m-%d %H:%M:%S"

SaveMarkdownText(content, title, metadata, now) ==
    LET header == (IF title # <<>> THEN <<"# ">> \o title \o <<"\n">> ELSE <<>>)
               \o (IF metadata # <<>>
                   THEN <<"---\n">> \o metadata \o <<"---\n">> ELSE <<>>)
               \o <<"generated-at: ", now, "\n", "\n">>
    IN  header \o content \o <<"\n\n---\n*generated-by-footer*">>

(***************************************************************************)
(* The Completer (llm.invoke).  A call fails, or answers with a text; the  *)
(* text of an answer is opaque, and is tagged with the call it answers.    *)
(***************************************************************************)
NoValue == "none"

(***************************************************************************)
(* A function that is not under study in a specification stays off.        *)
(***************************************************************************)
IntervalsOff ==
    /\ chunks_results = <<>>
    /\ interval = 1
    /\ g_pc = "off"
    /\ g_i = 0
    /\ interval_knowledge = <<>>
    /\ interval_knowledge_groups = <<>>
    /\ g_task = <<>>
    /\ summaries = <<>>
    /\ g_ret = NoValue
    /\ summary_dir = <<>>
    /\ flush_log = <<>>
    /\ gen_calls = <<>>

ChunksOff ==
    /\ chunks = <<>>
    /\ depth = "off"
    /\ p_pc = "off"
    /\ p_task = <<>>
    /\ results = <<>>
    /\ p_ret = NoValue
    /\ knowledge_dir = <<>>

SlidingOff ==
    /\ interval_summaries = <<>>
    /\ s_pc = "off"
    /\ s_i = 0
    /\ integrated_sections = <<>>
    /\ s_ret = NoValue
    /\ llm_calls = <<>>

\* history: the outcome of an analyze_chunk call that has not run
NoOutcome ==
    [llm |-> NoValue, shape |-> <<FALSE, 0>>, save1 |-> NoValue, save2 |-> NoValue]

AnalyzeOff ==
    /\ a_pc = "off"
    /\ a_chunk_idx = 0
    /\ a_outcome = NoOutcome
    /\ a_future = [raised |-> FALSE, ret |-> NoValue]

LoadOff ==
    /\ l_pc = "off"
    /\ l_writes = 0
    /\ l_ret = NoValue
    /\ l_again = NoValue

MetaOff ==
    /\ ms_pc = "off"
    /\ ms_ret = NoValue
    /\ ms_kind = NoValue
    /\ meta_dir = <<>>
    /\ meta_calls = <<>>

IntegrateOff ==
    /\ o_pc = "off"
    /\ toc_dir = <<>>
    /\ toc_content = NoValue
    /\ meta_summary_content = NoValue
    /\ o_ret = NoValue
    /\ integrated_dir = <<>>
    /\ o_intro = NoValue

MainOff == m_pc = "off"

\* the parameters of a run that is not followed from its start
ConfigOff ==
    /\ chunk_size = 1
    /\ chunk_overlap = 0
    /\ work_log = <<>>

InterruptOff == p_interrupt = [arrived |-> FALSE, not_started |-> {}]

AssembleOff ==
    /\ r_pc = "off"
    /\ r_toc_content = <<>>
    /\ r_introduction = <<>>
    /\ r_sections = <<>>
    /\ r_meta_summary = <<>>
    /\ r_clock = 0
    /\ r_outs = <<>>

KeysOff ==
    /\ k_pc = "off"
    /\ k_kind = NoValue
    /\ k_nums = <<0, 0>>
    /\ k_listing = <<>>

FinalOff ==
    /\ f_pc = "off"
    /\ f_log = <<>>

\* no exception yet (None)
NoException == [kind |-> NoValue, attempt |-> -1]

RetryOff ==
    /\ PDF_API_RETRY_COUNT = 1
    /\ q_pc = "off"
    /\ q_kind = NoValue
    /\ q_attempt = 0
    /\ q_last_exception = NoException
    /\ q_log = <<>>
    /\ q_ret = NoException

PollOff ==
    /\ PDF_API_TIMEOUT = 0
    /\ w_pc = "off"
    /\ w_elapsed = 0
    /\ w_raised = <<>>
    /\ w_late = 0
    /\ w_errored = FALSE

\* no converter instance
NoConverter == [class |-> NoValue, options |-> <<>>, id |-> 0]

\* no call yet
NoCall == [call |-> NoValue, raised |-> FALSE, use_local |-> TRUE,
           converter |-> NoConverter, local_options |-> <<>>,
           server_options |-> <<>>]

AdapterOff ==
    /\ u_pc = "off"
    /\ use_local = TRUE
    /\ local_options = <<>>
    /\ server_options = <<>>
    /\ converter = NoConverter
    /\ u_made = 0
    /\ u_last = NoCall

LateOff == FinalOff /\ RetryOff /\ PollOff /\ AdapterOff

MoreOff == ConfigOff /\ InterruptOff /\ AssembleOff /\ KeysOff /\ LateOff

\* the functions modelled further down stay off
RestOff == AnalyzeOff /\ LoadOff /\ MetaOff /\ IntegrateOff /\ MainOff /\ MoreOff

\* completion.content of the call for interval number n: empty or not
SummaryReplies(n) == {<<>>, <<"summary#" \o ToString(n)>>}

(***************************************************************************)
(* generate_interval_summaries, lines 131-145: grouping.                   *)
(***************************************************************************)
\* line 136-139: absorb the record at the loop position
AbsorbAlways(acc, result) == acc \o result.knowledge

Absorb(acc, result) ==
    IF result.has_content THEN acc \o result.knowledge ELSE acc

\* line 142: is a flush evaluated after absorbing position i of T records
IsFlushPointNoFinal(i, k, T) == (i + 1) % k = 0

IsFlushPointOffByOne(i, k, T) == i % k = 0 \/ i = T - 1

IsFlushPoint(i, k, T) == (i + 1) % k = 0 \/ i = T - 1

\* line 143: a group is closed only when the accumulator holds knowledge
ClosesGroupAlways(acc) == TRUE

ClosesGroup(acc) == acc # <<>>

\* line 145: the accumulator after a group was closed
AfterCloseKeep(acc) == acc

AfterClose(acc) == <<>>

\* line 156: the interval number handed to generate_interval_summary
IntervalNum(idx) == idx + 1

GroupStep ==
    /\ g_pc = "group"
    /\ g_i < Len(chunks_results)
    /\ LET result == chunks_results[g_i + 1]
           acc    == Absorb(interval_knowledge, result)
           flush  == IsFlushPoint(g_i, interval, Len(chunks_results))
           close  == flush /\ ClosesGroup(acc)
           groups == IF close THEN Append(interval_knowledge_groups, acc)
                     ELSE interval_knowledge_groups
       IN  /\ interval_knowledge' = IF close THEN AfterClose(acc) ELSE acc
           /\ interval_knowledge_groups' = groups
           /\ flush_log' = IF flush
                           THEN Append(flush_log, [pos |-> g_i, acc |-> acc,
                                                   closed |-> Len(groups)])
                           ELSE flush_log
    /\ g_i' = g_i + 1
    /\ UNCHANGED <<xvars, pvars, svars, chunks_results, interval, max_workers, g_pc, g_task,
                   summaries, g_ret, summary_dir, gen_calls>>

(***************************************************************************)
(* generate_interval_summaries, lines 147-175: the parallel summaries.     *)
(***************************************************************************)
\* lines 154-157: one work item per group, all submitted before any result
\* is collected
SubmitSummaries ==
    /\ g_pc = "group"
    /\ g_i = Len(chunks_results)
    /\ g_task' = [idx \in 0..(Len(interval_knowledge_groups) - 1) |->
                    [state        |-> "queued",
                     knowledge    |-> interval_knowledge_groups[idx + 1],
                     interval_num |-> IntervalNum(idx),
                     raised       |-> FALSE,
                     ret          |-> NoValue,
                     llm_failed   |-> FALSE]]
    /\ gen_calls' = [idx \in 0..(Len(interval_knowledge_groups) - 1) |-> 0]
    /\ g_pc' = "collect"
    /\ UNCHANGED <<xvars, pvars, svars, chunks_results, interval, max_workers, g_i,
                   interval_knowledge, interval_knowledge_groups, summaries,
                   g_ret, summary_dir, flush_log>>

Running(task) == {idx \in DOMAIN task : task[idx].state = "running"}
Queued(task)  == {idx \in DOMAIN task : task[idx].state = "queued"}

\* concurrent.futures.as_completed (cli.py lines 98 and 160): the loop over
\* it ends when every future was handed over
AsCompletedFirstOnly(task) ==
    task = <<>> \/ \E idx \in DOMAIN task : task[idx].state = "collected"

AsCompletedExhausted(task) ==
    \A idx \in DOMAIN task : task[idx].state = "collected"

\* (a variant with a thread for every work item)
PoolCanStartUnbounded(task, idx, workers) ==
    /\ idx \in Queued(task)
    /\ \A j \in Queued(task) : idx <= j

\* ThreadPoolExecutor: at most max_workers threads, each taking the oldest
\* queued work item
PoolCanStart(task, idx, workers) ==
    /\ idx \in Queued(task)
    /\ \A j \in Queued(task) : idx <= j
    /\ Cardinality(Running(task)) < workers

\* generate_interval_summary is entered (summary_generator.py line 38)
StartSummary(idx) ==
    /\ g_pc = "collect"
    /\ PoolCanStart(g_task, idx, max_workers)
    /\ g_task' = [g_task EXCEPT ![idx].state = "running"]
    /\ gen_calls' = [gen_calls EXCEPT ![idx] = @ + 1]
    /\ UNCHANGED <<xvars, pvars, svars, chunks_results, interval, max_workers, g_pc, g_i,
                   interval_knowledge, interval_knowledge_groups, summaries,
                   g_ret, summary_dir, flush_log>>

\* summary_generator.py line 95: the artifact key of interval number n
IntervalSummaryKey(n) == <<"interval_summary_">> \o ZeroPad(n, 3) \o <<".md">>

\* the directory after a write of `text` under `key`
PutFile(dir, key, text) ==
    [k \in DOMAIN dir \cup {key} |-> IF k = key THEN text ELSE dir[k]]

\* summary_generator.py lines 80-112 (_save_interval_summary): the text
\* written under the interval's key
IntervalSummaryFile(summary, n, now) ==
    SaveMarkdownText(summary,
                     <<"interval-summary #" \o ToString(n) \o ": base_name">>,
                     <<"interval_num: " \o ToString(n) \o "\n",
                       "file_name: file_name\n", "type: interval_summary\n">>,
                     now)

\* The ways the try block of generate_interval_summary (summary_generator.py
\* lines 55-78) can end for interval number n:
\*   "llm_error"   llm.invoke raises
\*   "reply"       llm.invoke answers with `content`; an empty content is
\*                 not saved, a non-empty one is saved
\*   "open_error"  the answer is non-empty and open() of the file raises
\*   "write_error" the answer is non-empty and the write raises after
\*                 open() truncated the file
SummaryOutcomes(n) ==
    {[kind |-> "llm_error", content |-> <<>>]}
    \cup {[kind |-> "reply", content |-> c] : c \in SummaryReplies(n)}
    \cup {[kind |-> k, content |-> c] :
            k \in {"open_error", "write_error"}, c \in SummaryReplies(n) \ {<<>>}}

\* what generate_interval_summary returns (lines 74 and 78)
SummaryReturn(o) == IF o.kind = "reply" THEN o.content ELSE <<>>

\* the summaries directory after the call
SummaryDirAfter(dir, n, o) ==
    IF o.kind = "reply" /\ o.content # <<>>
    THEN PutFile(dir, IntervalSummaryKey(n), IntervalSummaryFile(o.content, n, Now))
    ELSE IF o.kind = "write_error"
    THEN PutFile(dir, IntervalSummaryKey(n), <<>>)
    ELSE dir

\* generate_interval_summary (summary_generator.py lines 38-78) runs to its
\* return
FinishSummary(idx) ==
    /\ g_pc = "collect"
    /\ g_task[idx].state = "running"
    /\ LET n == g_task[idx].interval_num
       IN  IF g_task[idx].knowledge = <<>>
           THEN \* lines 48-50
                /\ g_task' = [g_task EXCEPT ![idx].state = "finished",
                                            ![idx].ret = <<>>]
                /\ UNCHANGED summary_dir
           ELSE \E o \in SummaryOutcomes(n) :
                   /\ g_task' = [g_task EXCEPT ![idx].state = "finished",
                                               ![idx].ret = SummaryReturn(o),
                                               ![idx].llm_failed = (o.kind = "llm_error")]
                   /\ summary_dir' = SummaryDirAfter(summary_dir, n, o)
    /\ UNCHANGED <<xvars, pvars, svars, chunks_results, interval, max_workers, g_pc, g_i,
                   interval_knowledge, interval_knowledge_groups, summaries,
                   g_ret, flush_log, gen_calls>>

\* lines 160-168: as_completed hands over a finished future; its result, or
\* the error text when it raised, is appended with its idx.
\* generate_interval_summary catches every Exception of its try block (line
\* 76), so no future of this stage raises and `raised` stays FALSE.
SummaryErrorText == <<"summary-generation-error: ", "str(e)">>

CollectSummary(idx) ==
    /\ g_pc = "collect"
    /\ g_task[idx].state = "finished"
    /\ summaries' = Append(summaries,
                           <<idx, IF g_task[idx].raised THEN SummaryErrorText
                                  ELSE g_task[idx].ret>>)
    /\ g_task' = [g_task EXCEPT ![idx].state = "collected"]
    /\ UNCHANGED <<xvars, pvars, svars, chunks_results, interval, max_workers, g_pc, g_i,
                   interval_knowledge, interval_knowledge_groups, g_ret,
                   summary_dir, flush_log, gen_calls>>

\* line 175: sorted(summaries, key=lambda x: x[0])
UnsortedSummaries(pairs) == pairs

SortedSummaries(pairs) == SortedByKey(pairs)

\* line 175: sorted by idx, the summaries alone are returned
ReturnSummaries ==
    /\ g_pc = "collect"
    /\ AsCompletedExhausted(g_task)
    /\ g_ret' = [p \in 1..Len(summaries) |-> SortedSummaries(summaries)[p][2]]
    /\ g_pc' = "done"
    /\ UNCHANGED <<xvars, pvars, svars, chunks_results, interval, max_workers, g_i,
                   interval_knowledge, interval_knowledge_groups, g_task,
                   summaries, summary_dir, flush_log, gen_calls>>

(***************************************************************************)
(* Inputs of generate_interval_summaries.                                  *)
(***************************************************************************)
\* the knowledge list of the record at position i holding n items
KnowledgeOf(i, n) == [j \in 1..n |-> "k" \o ToString(i) \o "." \o ToString(j)]

ChunkRecord(i, has, n) ==
    [chunk_idx |-> i, has_content |-> has, knowledge |-> KnowledgeOf(i, n)]

\* shapes of a record: has_content and the number of knowledge items
RecordShapes == {<<FALSE, 0>>, <<FALSE, 1>>, <<TRUE, 0>>, <<TRUE, 2>>}

ChunkRecordLists(T) ==
    {[p \in 1..T |-> ChunkRecord(p - 1, f[p][1], f[p][2])] :
        f \in [1..T -> RecordShapes]}

\* artifacts an earlier run may have left in the summaries directory
StaleSummaryDirs ==
    {<<>>, PutFile(<<>>, IntervalSummaryKey(1), <<"stale#1">>)}

IntervalsStart ==
    /\ g_pc = "group"
    /\ g_i = 0
    /\ interval_knowledge = <<>>
    /\ interval_knowledge_groups = <<>>
    /\ g_task = <<>>
    /\ summaries = <<>>
    /\ g_ret = NoValue
    /\ flush_log = <<>>
    /\ gen_calls = <<>>

InitIntervals ==
    /\ \E T \in 0..MaxChunks : chunks_results \in ChunkRecordLists(T)
    /\ interval \in 1..MaxInterval
    /\ max_workers \in 1..MaxWorkers
    /\ summary_dir \in StaleSummaryDirs
    /\ IntervalsStart /\ ChunksOff /\ SlidingOff /\ RestOff

NextIntervals ==
    \/ GroupStep
    \/ SubmitSummaries
    \/ \E idx \in DOMAIN g_task : StartSummary(idx)
    \/ \E idx \in DOMAIN g_task : FinishSummary(idx)
    \/ \E idx \in DOMAIN g_task : CollectSummary(idx)
    \/ ReturnSummaries

SpecIntervals == InitIntervals /\ [][NextIntervals]_vars

(***************************************************************************)
(* The scenario of 12 chunks with interval 5: chunks 3 and 8 (positions 2  *)
(* and 7) have no content, every other chunk has one knowledge item, and   *)
(* the last chunk has content or not.                                      *)
(***************************************************************************)
ScenarioChunks(last_has_content) ==
    [p \in 1..12 |->
        IF p \in {3, 8} \/ (p = 12 /\ ~last_has_content)
        THEN ChunkRecord(p - 1, FALSE, 0)
        ELSE ChunkRecord(p - 1, TRUE, 1)]

InitScenario ==
    /\ chunks_results \in {ScenarioChunks(b) : b \in BOOLEAN}
    /\ interval = SUMMARY_INTERVAL
    /\ max_workers \in 1..MaxWorkers
    /\ summary_dir \in StaleSummaryDirs
    /\ IntervalsStart /\ ChunksOff /\ SlidingOff /\ RestOff

SpecScenario == InitScenario /\ [][NextIntervals]_vars

(***************************************************************************)
(* ChunkAnalyzer.analyze_chunk (chunk_analyzer.py lines 41-107).           *)
(***************************************************************************)
\* the analysis depth of the run: one of those the --depth option names
\* (cli.py line 71)
AnalysisDepth == "standard"

\* (a variant that leaves the index out of the key)
ChunkKeyNoIndex(chunk_idx, d) ==
    <<"chunk_", "_", d, ".json">>

\* chunk_analyzer.py line 117: the artifact key of a chunk's record
ChunkKey(chunk_idx, d) ==
    <<"chunk_">> \o ZeroPad(chunk_idx, 4) \o <<"_", d, ".json">>

\* (a variant that keeps the reply's knowledge whatever has_content says)
AnalysisResultKeep(chunk_idx, has_content, knowledge, d) ==
    [chunk_idx   |-> chunk_idx,
     has_content |-> has_content,
     knowledge   |-> knowledge,
     error       |-> NoValue,
     depth       |-> d]

\* lines 78-84: the record of a successful extraction.  A dict key that is
\* not set is the field value NoValue; processing_time, a duration, is left
\* out.
AnalysisResult(chunk_idx, has_content, knowledge, d) ==
    [chunk_idx   |-> chunk_idx,
     has_content |-> has_content,
     knowledge   |-> IF has_content THEN knowledge ELSE <<>>,
     error       |-> NoValue,
     depth       |-> d]

\* lines 95-102: the record of a failed analysis
ErrorResult(chunk_idx, e, d) ==
    [chunk_idx   |-> chunk_idx,
     has_content |-> FALSE,
     knowledge   |-> <<>>,
     error       |-> e,
     depth       |-> d]

\* what with_structured_output(PageContent).invoke can answer: has_content
\* and the number of knowledge items
ReplyShapes == {<<FALSE, 1>>, <<TRUE, 0>>, <<TRUE, 2>>}

SaveResults == {"ok", "open_error", "write_error"}

\* The ways analyze_chunk can run:
\*   llm    "error": the Completer call raises; "reply": it answers `shape`
\*   save1  the save of the analysis result (line 87), "skipped" when the
\*          call raised
\*   save2  the save of the error result (line 105), "skipped" when the
\*          first save succeeded
\* A save is save_json: "ok", or open() raises ("open_error"), or the dump
\* raises after open() truncated the file ("write_error").
AnalyzeOutcomes ==
    {[llm |-> "reply", shape |-> sh, save1 |-> "ok", save2 |-> "skipped"] :
        sh \in ReplyShapes}
    \cup {[llm |-> "reply", shape |-> sh, save1 |-> f, save2 |-> r] :
            sh \in ReplyShapes, f \in SaveResults \ {"ok"}, r \in SaveResults}
    \cup {[llm |-> "error", shape |-> <<FALSE, 0>>, save1 |-> "skipped",
           save2 |-> r] : r \in SaveResults}

\* a file that open() truncated and the dump did not complete
TruncatedJson == [truncated |-> TRUE]

\* utils.save_json (utils.py lines 66-77): the knowledge directory after
\* save_json(record) under key ended as `how`
SaveJson(dir, key, record, how) ==
    CASE how = "ok"          -> PutFile(dir, key, record)
      [] how = "write_error" -> PutFile(dir, key, TruncatedJson)
      [] OTHER               -> dir

\* the result of the future of analyze_chunk(chunk, chunk_idx): the record
\* returned, or raised = TRUE when the save of the error result raised too
AnalyzeFuture(chunk_idx, d, o) ==
    IF o.save1 = "ok"
    THEN [raised |-> FALSE,
          ret |-> AnalysisResult(chunk_idx, o.shape[1],
                                 KnowledgeOf(chunk_idx, o.shape[2]), d)]
    ELSE IF o.save2 = "ok"
    THEN [raised |-> FALSE,
          ret |-> ErrorResult(chunk_idx,
                              IF o.llm = "error" THEN "llm error" ELSE "io error", d)]
    ELSE [raised |-> TRUE, ret |-> "io error"]

\* the knowledge directory after analyze_chunk(chunk, chunk_idx)
KnowledgeDirAfter(dir, chunk_idx, d, o) ==
    LET key    == ChunkKey(chunk_idx, d)
        after1 == IF o.save1 = "skipped" THEN dir
                  ELSE SaveJson(dir, key,
                                AnalysisResult(chunk_idx, o.shape[1],
                                               KnowledgeOf(chunk_idx, o.shape[2]), d),
                                o.save1)
    IN  IF o.save2 = "skipped" THEN after1
        ELSE SaveJson(after1, key,
                      ErrorResult(chunk_idx,
                                  IF o.llm = "error" THEN "llm error" ELSE "io error", d),
                      o.save2)

(***************************************************************************)
(* process_chunks (cli.py lines 75-117).                                   *)
(***************************************************************************)
\* lines 93-95: one work item per chunk, all submitted before any result is
\* collected
SubmitChunks ==
    /\ p_pc = "submit"
    /\ p_task' = [chunk_idx \in 0..(Len(chunks) - 1) |->
                    [state |-> "queued", raised |-> FALSE, ret |-> NoValue]]
    /\ p_pc' = "collect"
    /\ UNCHANGED <<xvars, max_workers, gvars, svars, chunks, depth, results, p_ret,
                   knowledge_dir>>

\* the threads of the pool take work while the with block of line 93 is
\* open: during the loop over as_completed and, when an exception leaves the
\* loop, while the block's exit waits in shutdown(wait=True)
PoolIsOpen(pc) == pc \in {"collect", "shutdown"}

\* a pool thread takes the work item and enters analyze_chunk
StartChunk(chunk_idx) ==
    /\ PoolIsOpen(p_pc)
    /\ PoolCanStart(p_task, chunk_idx, max_workers)
    /\ p_task' = [p_task EXCEPT ![chunk_idx].state = "running"]
    /\ UNCHANGED <<xvars, max_workers, gvars, svars, chunks, depth, p_pc, results,
                   p_ret, knowledge_dir>>

\* analyze_chunk runs to its return or raise
FinishChunk(chunk_idx) ==
    /\ PoolIsOpen(p_pc)
    /\ p_task[chunk_idx].state = "running"
    /\ \E o \in AnalyzeOutcomes :
          /\ p_task' = [p_task EXCEPT
                          ![chunk_idx] = [state  |-> "finished",
                                          raised |-> AnalyzeFuture(chunk_idx, depth, o).raised,
                                          ret    |-> AnalyzeFuture(chunk_idx, depth, o).ret]]
          /\ knowledge_dir' = KnowledgeDirAfter(knowledge_dir, chunk_idx, depth, o)
    /\ UNCHANGED <<xvars, max_workers, gvars, svars, chunks, depth, p_pc, results, p_ret>>

\* lines 105-110: the record appended for a future that raised
FallbackRecord(chunk_idx, e) ==
    [chunk_idx   |-> chunk_idx,
     has_content |-> FALSE,
     knowledge   |-> <<>>,
     error       |-> e,
     depth       |-> NoValue]

\* lines 100-110: what the loop appends for the future of chunk_idx
CollectedNothing(results_so_far, chunk_idx, future) ==
    IF future.raised THEN results_so_far
    ELSE Append(results_so_far, future.ret)

Collected(results_so_far, chunk_idx, future) ==
    IF future.raised
    THEN Append(results_so_far, FallbackRecord(chunk_idx, future.ret))
    ELSE Append(results_so_far, future.ret)

\* lines 98-110: as_completed hands over a finished future
CollectChunk(chunk_idx) ==
    /\ p_pc = "collect"
    /\ p_task[chunk_idx].state = "finished"
    /\ results' = Collected(results, chunk_idx, p_task[chunk_idx])
    /\ p_task' = [p_task EXCEPT ![chunk_idx].state = "collected"]
    /\ UNCHANGED <<xvars, max_workers, gvars, svars, chunks, depth, p_pc, p_ret,
                   knowledge_dir>>

\* line 117: sorted(results, key=lambda x: x.get('chunk_idx', 0))
UnsortedResults(rs) == rs

SortedResults(rs) ==
    LET pairs == SortedByKey([p \in DOMAIN rs |-> <<rs[p].chunk_idx, rs[p]>>])
    IN  [p \in DOMAIN rs |-> pairs[p][2]]

\* line 117: every future was handed over; the sorted records are returned
ReturnChunks ==
    /\ p_pc = "collect"
    /\ AsCompletedExhausted(p_task)
    /\ p_ret' = SortedResults(results)
    /\ p_pc' = "done"
    /\ UNCHANGED <<xvars, max_workers, gvars, svars, chunks, depth, p_task, results,
                   knowledge_dir>>

InitChunks ==
    /\ \E N \in 0..MaxChunks : chunks = [p \in 1..N |-> "chunk" \o ToString(p - 1)]
    /\ max_workers \in 1..MaxWorkers
    /\ depth = AnalysisDepth
    /\ p_pc = "submit"
    /\ p_task = <<>>
    /\ results = <<>>
    /\ p_ret = NoValue
    /\ knowledge_dir = <<>>
    /\ IntervalsOff /\ SlidingOff /\ RestOff

NextChunks ==
    \/ SubmitChunks
    \/ \E chunk_idx \in DOMAIN p_task : StartChunk(chunk_idx)
    \/ \E chunk_idx \in DOMAIN p_task : FinishChunk(chunk_idx)
    \/ \E chunk_idx \in DOMAIN p_task : CollectChunk(chunk_idx)
    \/ ReturnChunks

SpecChunks == InitChunks /\ [][NextChunks]_vars

(***************************************************************************)
(* One call of analyze_chunk (chunk_analyzer.py lines 41-107) with every   *)
(* way it can run on record, followed through the loop body of             *)
(* process_chunks that receives its future (cli.py lines 99-110).          *)
(***************************************************************************)
\* a record an earlier run left under the chunk's key
StaleRecord(chunk_idx, d) ==
    AnalysisResult(chunk_idx, TRUE, KnowledgeOf(chunk_idx, 1), d)

StaleKnowledgeDirs(chunk_idx, d) ==
    {<<>>, PutFile(<<>>, ChunkKey(chunk_idx, d), StaleRecord(chunk_idx, d))}

\* chunk_analyzer.py lines 41-107: the call runs to its return or raise
AnalyzeCall ==
    /\ a_pc = "call"
    /\ \E o \in AnalyzeOutcomes :
          /\ a_outcome' = o
          /\ a_future' = AnalyzeFuture(a_chunk_idx, depth, o)
          /\ knowledge_dir' = KnowledgeDirAfter(knowledge_dir, a_chunk_idx, depth, o)
    /\ a_pc' = "returned"
    /\ UNCHANGED <<a_rest, max_workers, gvars, svars, chunks, depth, p_pc,
                   p_task, results, p_ret, a_chunk_idx>>

\* cli.py lines 99-110: the loop body of process_chunks for this future
AnalyzeCollect ==
    /\ a_pc = "returned"
    /\ results' = Collected(results, a_chunk_idx, a_future)
    /\ a_pc' = "collected"
    /\ UNCHANGED <<a_rest, max_workers, gvars, svars, chunks, depth, p_pc,
                   p_task, p_ret, knowledge_dir, a_chunk_idx, a_outcome, a_future>>

InitAnalyze ==
    /\ a_chunk_idx \in 0..(MaxChunks - 1)
    /\ a_pc = "call"
    /\ a_outcome = NoOutcome
    /\ a_future = [raised |-> FALSE, ret |-> NoValue]
    /\ depth = AnalysisDepth
    /\ knowledge_dir \in StaleKnowledgeDirs(a_chunk_idx, depth)
    /\ chunks = <<>>
    /\ p_pc = "off"
    /\ p_task = <<>>
    /\ results = <<>>
    /\ p_ret = NoValue
    /\ max_workers = 1
    /\ IntervalsOff /\ SlidingOff /\ LoadOff /\ MetaOff /\ IntegrateOff /\ MainOff
    /\ MoreOff

NextAnalyze == AnalyzeCall \/ AnalyzeCollect

SpecAnalyze == InitAnalyze /\ [][NextAnalyze]_vars

(***************************************************************************)
(* ChunkAnalyzer.load_all_results (chunk_analyzer.py lines 122-144) over a *)
(* knowledge directory that writes of _save_analysis_result (lines         *)
(* 109-120) filled in any order, for any depth, some of them cut short.    *)
(***************************************************************************)
\* the values of --depth (cli.py line 71, chunk_analyzer.py line 32)
DepthOptions == {"conceptual", "standard", "detailed"}

\* the order of the characters that tell two file names apart: "." comes
\* before the digits, the digits before "_", and "_" before the first letter
\* of the depth (c < d < s)
TokenRank(tok) ==
    CASE tok = ".md" -> -1 [] tok = ".json" -> -1
      [] tok = "0" -> 0 [] tok = "1" -> 1 [] tok = "2" -> 2 [] tok = "3" -> 3
      [] tok = "4" -> 4 [] tok = "5" -> 5 [] tok = "6" -> 6 [] tok = "7" -> 7
      [] tok = "8" -> 8 [] tok = "9" -> 9
      [] tok = "_" -> 10
      [] tok = "conceptual" -> 11 [] tok = "detailed" -> 12
      [] tok = "standard" -> 13
      [] OTHER -> 0

\* sorted() over paths: name a comes before name b
RECURSIVE NameLess(_, _)
NameLess(a, b) ==
    IF a = <<>> THEN b # <<>>
    ELSE IF b = <<>> THEN FALSE
    ELSE IF TokenRank(Head(a)) # TokenRank(Head(b))
    THEN TokenRank(Head(a)) < TokenRank(Head(b))
    ELSE NameLess(Tail(a), Tail(b))

\* sorted(glob(...)): the names of a set in ascending order
RECURSIVE SortedNames(_)
SortedNames(names) ==
    IF names = {} THEN <<>>
    ELSE LET first == CHOOSE k \in names :
                         \A other \in names \ {k} : NameLess(k, other)
         IN  <<first>> \o SortedNames(names \ {first})

\* line 130: glob(f"chunk_*_{self.depth}.json")
GlobDepth(dir, d) ==
    {k \in DOMAIN dir :
        /\ Len(k) >= 4
        /\ k[1] = "chunk_"
        /\ k[Len(k) - 2] = "_" /\ k[Len(k) - 1] = d /\ k[Len(k)] = ".json"}

\* line 134: glob("chunk_*.json")
GlobAny(dir) ==
    {k \in DOMAIN dir : Len(k) >= 2 /\ k[1] = "chunk_" /\ k[Len(k)] = ".json"}

\* lines 130-134: the files read, in reading order
ResultFiles(dir, d) ==
    IF GlobDepth(dir, d) # {} THEN SortedNames(GlobDepth(dir, d))
    ELSE SortedNames(GlobAny(dir))

\* lines 136-142: json.load of each file; a file that does not parse is
\* skipped
RECURSIVE LoadedFrom(_, _)
LoadedFrom(dir, files) ==
    IF files = <<>> THEN <<>>
    ELSE IF dir[Head(files)] = TruncatedJson
    THEN LoadedFrom(dir, Tail(files))
    ELSE <<dir[Head(files)]>> \o LoadedFrom(dir, Tail(files))

\* lines 122-144
LoadAllResults(dir, d) ==
    LET loaded == LoadedFrom(dir, ResultFiles(dir, d))
        pairs  == SortedByKey([p \in DOMAIN loaded |->
                                 <<loaded[p].chunk_idx, loaded[p]>>])
    IN  [p \in DOMAIN loaded |-> pairs[p][2]]

\* one _save_analysis_result call of some run: any chunk, any depth; the
\* write completes or is cut short after open() truncated the file
PersistRecord ==
    /\ l_pc = "write"
    /\ l_writes < MaxWrites
    /\ \E chunk_idx \in 0..(MaxChunks - 1), d \in DepthOptions,
          has \in BOOLEAN, how \in {"ok", "write_error"} :
          knowledge_dir' =
              SaveJson(knowledge_dir, ChunkKey(chunk_idx, d),
                       AnalysisResult(chunk_idx, has, KnowledgeOf(chunk_idx, 1), d),
                       how)
    /\ l_writes' = l_writes + 1
    /\ UNCHANGED <<l_rest, max_workers, gvars, svars, chunks, depth, p_pc,
                   p_task, results, p_ret, l_pc, l_ret, l_again>>

LoadAll ==
    /\ l_pc = "write"
    /\ l_ret' = LoadAllResults(knowledge_dir, depth)
    /\ l_pc' = "loaded"
    /\ UNCHANGED <<l_rest, max_workers, gvars, svars, pvars, l_writes, l_again>>

\* the next call, no write in between
LoadAgain ==
    /\ l_pc = "loaded"
    /\ l_again' = LoadAllResults(knowledge_dir, depth)
    /\ l_pc' = "reloaded"
    /\ UNCHANGED <<l_rest, max_workers, gvars, svars, pvars, l_writes, l_ret>>

InitLoad ==
    /\ l_pc = "write"
    /\ l_writes = 0
    /\ l_ret = NoValue
    /\ l_again = NoValue
    /\ depth = AnalysisDepth
    /\ knowledge_dir = <<>>
    /\ chunks = <<>>
    /\ p_pc = "off"
    /\ p_task = <<>>
    /\ results = <<>>
    /\ p_ret = NoValue
    /\ max_workers = 1
    /\ IntervalsOff /\ SlidingOff /\ AnalyzeOff /\ MetaOff /\ IntegrateOff /\ MainOff
    /\ MoreOff

NextLoad == PersistRecord \/ LoadAll \/ LoadAgain

SpecLoad == InitLoad /\ [][NextLoad]_vars

(***************************************************************************)
(* SummaryGenerator.generate_meta_summary (summary_generator.py lines      *)
(* 191-244) and _save_meta_summary (lines 246-276).                        *)
(***************************************************************************)
\* line 173: the artifact key of final summary number n
FinalSummaryKey(n) == <<"final_summary_">> \o ZeroPad(n, 3) \o <<".md">>

\* lines 173-187 (_save_final_summary): the text written for a final summary
FinalSummaryFile(summary, now) ==
    SaveMarkdownText(summary, <<"final-summary: base_name">>,
                     <<"file_name: file_name\n", "type: final_summary\n">>, now)

\* line 260: the artifact key of the meta-summary
MetaSummaryKey == <<"base_name", "_meta_summary.md">>

\* lines 260-274 (_save_meta_summary): the text written for a meta-summary
MetaSummaryFile(meta_summary, now) ==
    SaveMarkdownText(meta_summary, <<"meta-summary: base_name">>,
                     <<"file_name: file_name\n", "type: meta_summary\n">>, now)

\* lines 201 and 208: the two globs over the summaries directory
GlobPrefix(dir, prefix) ==
    {k \in DOMAIN dir : Len(k) >= 2 /\ k[1] = prefix /\ k[Len(k)] = ".md"}

\* the contents of the files, in the order of `files`
ContentsOf(dir, files) == [p \in DOMAIN files |-> dir[files[p]]]

\* lines 198-212: all_summaries, the interval summaries then the final ones,
\* each in sorted file order; the content of every file is appended, an
\* empty one too
AllSummaries(dir) ==
    ContentsOf(dir, SortedNames(GlobPrefix(dir, "interval_summary_")))
    \o ContentsOf(dir, SortedNames(GlobPrefix(dir, "final_summary_")))

\* line 226: "\n\n---\n\n".join(all_summaries)
MetaSeparator == <<"\n\n---\n\n">>

RECURSIVE JoinNoSeparator(_, _)
JoinNoSeparator(texts, sep) ==
    IF texts = <<>> THEN <<>>
    ELSE Head(texts) \o JoinNoSeparator(Tail(texts), sep)

RECURSIVE Join(_, _)
Join(texts, sep) ==
    IF texts = <<>> THEN <<>>
    ELSE IF Len(texts) = 1 THEN texts[1]
    ELSE Head(texts) \o sep \o Join(Tail(texts), sep)

\* line 226: the user message of the call
MetaPrompt(all_summaries) ==
    <<"meta-summary-request:\n\n">> \o Join(all_summaries, MetaSeparator)

\* completion.content of the call: empty or not
MetaReplies == {<<>>, <<"meta-summary">>}

\* The ways generate_meta_summary can run over the files found:
\*   "read_error"  open() or read() of a summary file raises (lines 203-204
\*                 and 210-211 are outside the try block)
\*   "no_summaries" no file was found (lines 214-216)
\*   "llm_error"   llm.invoke raises
\*   "reply"       llm.invoke answers with `content`; an empty content is
\*                 not saved
\*   "open_error", "write_error"  the answer is non-empty and its save raises
MetaOutcomes(all_summaries) ==
    IF all_summaries = <<>>
    THEN {[kind |-> "no_summaries", content |-> <<>>]}
    ELSE {[kind |-> "read_error", content |-> <<>>],
          [kind |-> "llm_error", content |-> <<>>]}
         \cup {[kind |-> "reply", content |-> c] : c \in MetaReplies}
         \cup {[kind |-> k, content |-> c] :
                 k \in {"open_error", "write_error"}, c \in MetaReplies \ {<<>>}}

\* lines 240, 216 and 244: what the call returns
MetaReturn(o) == IF o.kind = "reply" THEN o.content ELSE <<>>

\* the meta-summary directory after the call
MetaDirAfter(dir, o) ==
    IF o.kind = "reply" /\ o.content # <<>>
    THEN PutFile(dir, MetaSummaryKey, MetaSummaryFile(o.content, Now))
    ELSE IF o.kind = "write_error"
    THEN PutFile(dir, MetaSummaryKey, <<>>)
    ELSE dir

\* the Completer calls made so far, after the call
MetaCallsAfter(calls, all_summaries, o) ==
    IF o.kind \in {"read_error", "no_summaries"} THEN calls
    ELSE Append(calls, MetaPrompt(all_summaries))

\* lines 191-244: the call runs to its return or raise
GenerateMetaSummary ==
    /\ ms_pc = "call"
    /\ \E o \in MetaOutcomes(AllSummaries(summary_dir)) :
          /\ ms_kind' = o.kind
          /\ ms_ret' = MetaReturn(o)
          /\ ms_pc' = IF o.kind = "read_error" THEN "raised" ELSE "returned"
          /\ meta_dir' = MetaDirAfter(meta_dir, o)
          /\ meta_calls' = MetaCallsAfter(meta_calls, AllSummaries(summary_dir), o)
    /\ UNCHANGED <<ms_rest, max_workers, gvars, pvars, svars>>

\* the summaries directory a call can find: for each interval number a file
\* written by _save_interval_summary, a file a write left empty, or none;
\* and a final summary or none
SummaryDirOf(c) ==
    [k \in {IntervalSummaryKey(n) : n \in {m \in 1..MaxSummaries : c[m] # "absent"}}
            \cup (IF c[0] = "absent" THEN {} ELSE {FinalSummaryKey(1)}) |->
        IF k = FinalSummaryKey(1)
        THEN FinalSummaryFile(<<"final">>, Now)
        ELSE LET n == CHOOSE m \in 1..MaxSummaries : k = IntervalSummaryKey(m)
             IN  IF c[n] = "empty" THEN <<>>
                 ELSE IntervalSummaryFile(<<"summary#" \o ToString(n)>>, n, Now)]

SummaryDirs ==
    {SummaryDirOf(c) :
        c \in {f \in [0..MaxSummaries -> {"absent", "file", "empty"}] :
                  f[0] # "empty"}}

\* a meta-summary an earlier run may have left
StaleMetaDirs ==
    {<<>>, PutFile(<<>>, MetaSummaryKey, MetaSummaryFile(<<"stale-meta">>, Now))}

InitMeta ==
    /\ ms_pc = "call"
    /\ ms_ret = NoValue
    /\ ms_kind = NoValue
    /\ meta_dir \in StaleMetaDirs
    /\ meta_calls = <<>>
    /\ summary_dir \in SummaryDirs
    /\ chunks_results = <<>>
    /\ interval = 1
    /\ g_pc = "off"
    /\ g_i = 0
    /\ interval_knowledge = <<>>
    /\ interval_knowledge_groups = <<>>
    /\ g_task = <<>>
    /\ summaries = <<>>
    /\ g_ret = NoValue
    /\ flush_log = <<>>
    /\ gen_calls = <<>>
    /\ max_workers = 1
    /\ ChunksOff /\ SlidingOff /\ AnalyzeOff /\ LoadOff /\ IntegrateOff /\ MainOff
    /\ MoreOff

NextMeta == GenerateMetaSummary

SpecMeta == InitMeta /\ [][NextMeta]_vars

(***************************************************************************)
(* OutputIntegrator._sliding_window_integration (output_integrator.py      *)
(* lines 116-167).                                                         *)
(***************************************************************************)
\* lines 144-149: the two summaries the merge at loop position i is over
\* (positions i and i+1 of the list)
MergePairSelf(i) == <<i, i>>

MergePair(i) == <<i, i + 1>>

\* lines 144-149: prompt_template.format(interval_1=..., interval_2=...,
\* section_number=..., next_section=...).  The template is the
\* "section_integration" prompt; it is taken to hold these four fields and
\* no other, so that format() does not raise.
SectionPrompt(interval_1, interval_2, section_number, next_section) ==
    <<"section_integration(">> \o interval_1 \o <<"|">> \o interval_2
        \o <<"|", ToString(section_number), "|", ToString(next_section), ")">>

\* line 163: the section used when the merge of positions i and i+1 failed
FallbackFirstOnly(i, first, second) ==
    <<"## ", ToString(i + 1), " to ", ToString(i + 2), "\n\n">>
        \o first

FallbackSection(i, first, second) ==
    <<"## ", ToString(i + 1), " to ", ToString(i + 2), "\n\n">>
        \o first \o <<"\n\n---\n\n">> \o second

\* result.content of the merge call at loop position i: empty or not
MergeReplies(i) ==
    {<<>>, <<"merged#" \o ToString(i + 1) \o "+" \o ToString(i + 2)>>}

\* the ways the try block of lines 142-158 can end
MergeOutcomes(i) ==
    {[kind |-> "llm_error", content |-> <<>>]}
    \cup {[kind |-> "reply", content |-> c] : c \in MergeReplies(i)}

\* lines 160-164: the sections after a failed merge
SectionsDropFailed(sections, fallback) == sections

SectionsAfterFailure(sections, fallback) == Append(sections, fallback)

\* lines 126-131: the list is empty or holds one summary
SlidingEnter ==
    /\ s_pc = "start"
    /\ IF interval_summaries = <<>>
       THEN s_ret' = <<>> /\ s_pc' = "done"
       ELSE IF Len(interval_summaries) = 1
       THEN s_ret' = <<interval_summaries[1]>> /\ s_pc' = "done"
       ELSE s_ret' = s_ret /\ s_pc' = "loop"
    /\ UNCHANGED <<xvars, max_workers, gvars, pvars, interval_summaries, s_i,
                   integrated_sections, llm_calls>>

\* lines 140-165: one pass of the loop over range(len(interval_summaries) - 1)
MergeStep ==
    /\ s_pc = "loop"
    /\ s_i < Len(interval_summaries) - 1
    /\ LET pair   == MergePair(s_i)
           first  == interval_summaries[pair[1] + 1]
           second == interval_summaries[pair[2] + 1]
       IN  \E o \in MergeOutcomes(s_i) :
              /\ llm_calls' = Append(llm_calls,
                    [i      |-> s_i,
                     pair   |-> pair,
                     prompt |-> SectionPrompt(first, second, s_i + 1, s_i + 2),
                     failed |-> o.kind # "reply",
                     content |-> o.content])
              /\ integrated_sections' =
                    IF o.kind = "reply"
                    THEN Append(integrated_sections, o.content)
                    ELSE SectionsAfterFailure(integrated_sections,
                                              FallbackSection(s_i, first, second))
    /\ s_i' = s_i + 1
    /\ UNCHANGED <<xvars, max_workers, gvars, pvars, interval_summaries, s_pc, s_ret>>

\* line 167
SlidingReturn ==
    /\ s_pc = "loop"
    /\ s_i = Len(interval_summaries) - 1
    /\ s_ret' = integrated_sections
    /\ s_pc' = "done"
    /\ UNCHANGED <<xvars, max_workers, gvars, pvars, interval_summaries, s_i,
                   integrated_sections, llm_calls>>

\* the texts of the interval summaries handed in (integrate_output hands in
\* non-empty texts only, line 65)
SummaryTexts == {<<"A">>, <<"B">>, <<"A", "B">>}

InitSliding ==
    /\ \E n \in 0..MaxSummaries : interval_summaries \in [1..n -> SummaryTexts]
    /\ s_pc = "start"
    /\ s_i = 0
    /\ integrated_sections = <<>>
    /\ s_ret = NoValue
    /\ llm_calls = <<>>
    /\ max_workers = 1
    /\ IntervalsOff /\ ChunksOff /\ RestOff

NextSliding == SlidingEnter \/ MergeStep \/ SlidingReturn

SpecSliding == InitSliding /\ [][NextSliding]_vars

(***************************************************************************)
(* OutputIntegrator.integrate_output (output_integrator.py lines 35-114).  *)
(* get_prompt (line 85) is taken to return the template of the depth.      *)
(***************************************************************************)
\* cli.py line 249: the toc file of the run
TocKey == <<"base_name", "_toc.md">>

\* lines 169-187 (_read_file): the text of the file, empty when the file is
\* missing (a file that cannot be read is a file whose text is empty)
ReadFile(dir, key) == IF key \in DOMAIN dir THEN dir[key] ELSE <<>>

\* line 53 and line 80: the placeholders
TocPlaceholder == <<"toc-not-extracted">>
MetaPlaceholder == <<"meta-summary-not-generated">>

\* lines 50-53
TocContentRead(dir) ==
    IF ReadFile(dir, TocKey) = <<>> THEN TocPlaceholder ELSE ReadFile(dir, TocKey)

\* line 57: glob(f"interval_summary_*_{self.depth}.md")
GlobSummaryDepth(dir, d) ==
    {k \in DOMAIN dir :
        /\ Len(k) >= 4
        /\ k[1] = "interval_summary_"
        /\ k[Len(k) - 2] = "_" /\ k[Len(k) - 1] = d /\ k[Len(k)] = ".md"}

\* lines 57-61: the summary files read, in reading order
SummaryFiles(dir, d) ==
    IF GlobSummaryDepth(dir, d) # {} THEN SortedNames(GlobSummaryDepth(dir, d))
    ELSE SortedNames(GlobPrefix(dir, "interval_summary_"))

\* lines 63-66: the texts of the files, the empty ones left out
IntervalSummariesRead(dir, d) ==
    SelectSeq(ContentsOf(dir, SummaryFiles(dir, d)), LAMBDA text : text # <<>>)

\* line 69: the meta-summary path carrying the depth
MetaSummaryDepthKey(d) == <<"base_name", "_meta_summary_", d, ".md">>

\* lines 69-80
MetaSummaryRead(dir, d) ==
    LET with_depth == ReadFile(dir, MetaSummaryDepthKey(d))
        content    == IF with_depth # <<>> THEN with_depth
                      ELSE ReadFile(dir, MetaSummaryKey)
    IN  IF content = <<>> THEN MetaPlaceholder ELSE content

\* lines 49-88: the inputs are read from the directories and
\* _sliding_window_integration is entered with the summaries read
IntegrateEnter ==
    /\ o_pc = "call"
    /\ toc_content' = TocContentRead(toc_dir)
    /\ interval_summaries' = IntervalSummariesRead(summary_dir, AnalysisDepth)
    /\ meta_summary_content' = MetaSummaryRead(meta_dir, AnalysisDepth)
    /\ s_pc' = "start"
    /\ s_i' = 0
    /\ integrated_sections' = <<>>
    /\ s_ret' = NoValue
    /\ llm_calls' = <<>>
    /\ o_pc' = "sliding"
    /\ UNCHANGED <<o_rest, max_workers, gvars, pvars, toc_dir, o_ret,
                   integrated_dir, o_intro>>

\* str.strip(): white space at both ends is dropped
WhiteSpace == {" ", "\n"}

RECURSIVE StripLeft(_)
StripLeft(text) ==
    IF text # <<>> /\ Head(text) \in WhiteSpace THEN StripLeft(Tail(text))
    ELSE text

RECURSIVE StripRight(_)
StripRight(text) ==
    IF text # <<>> /\ text[Len(text)] \in WhiteSpace
    THEN StripRight(SubSeq(text, 1, Len(text) - 1))
    ELSE text

Strip(text) == StripRight(StripLeft(text))

\* line 251: the introduction used when the call fails
IntroFallback == <<"## intro\n\n", "fallback-introduction">>

\* lines 242-251: the Completer call of _generate_introduction fails, or
\* answers with a text
IntroOutcomes ==
    {[kind |-> "llm_error", content |-> <<>>],
     [kind |-> "reply", content |-> <<>>],
     [kind |-> "reply", content |-> <<"\n", "introduction", " ">>]}

\* lines 219-251 (_generate_introduction)
Introduction(o) ==
    IF o.kind = "reply" THEN Strip(o.content) ELSE IntroFallback

\* (a variant that leaves the first section out)
RECURSIVE SectionPartsSkipFirst(_)
SectionPartsSkipFirst(sections) ==
    IF Len(sections) <= 1 THEN <<>>
    ELSE <<sections[2], <<"\n">>>>
         \o SectionPartsSkipFirst(<<sections[1]>> \o SubSeq(sections, 3, Len(sections)))

\* lines 298-301: each section followed by "\n"
RECURSIVE SectionParts(_)
SectionParts(sections) ==
    IF sections = <<>> THEN <<>>
    ELSE <<Head(sections), <<"\n">>>> \o SectionParts(Tail(sections))

\* (a variant that closes the report with the meta-summary)
AssembleFinalContentWithMeta(toc, introduction, sections, meta_summary) ==
    Join(<<<<"# ", "base_name", " - report-title">>,
           toc,
           <<"\n---\n">>,
           introduction,
           <<"\n---\n">>,
           <<"## content-heading">>>> \o SectionParts(sections)
         \o <<meta_summary>>,
         <<"\n\n">>)

\* (a variant that dates the report with the wall clock)
AssembleFinalContentDated(toc, introduction, sections, meta_summary) ==
    Join(<<<<"# ", "base_name", " - report-title">>,
           toc,
           <<"\n---\n">>,
           introduction,
           <<"\n---\n">>,
           <<"## content-heading">>>> \o SectionParts(sections)
         \o <<<<"generated-at: ", ToString(r_clock)>>>>,
         <<"\n\n">>)

\* lines 253-308 (_assemble_final_content)
AssembleFinalContent(toc, introduction, sections, meta_summary) ==
    Join(<<<<"# ", "base_name", " - report-title">>,
           toc,
           <<"\n---\n">>,
           introduction,
           <<"\n---\n">>,
           <<"## content-heading">>>> \o SectionParts(sections),
         <<"\n\n">>)

\* line 199: the artifact key of the report
IntegratedKey(d) == <<"base_name", "_integrated_", d, ".md">>

\* lines 189-217 (_save_integrated_content): the text written
IntegratedFile(content, d, now) ==
    SaveMarkdownText(content, <<"base_name", " - report-title (depth: ", d, ")">>,
                     <<>>, now)

\* lines 107 and 112-114: the directory after the save ended as `how`
IntegratedDirAfter(dir, content, d, how) ==
    CASE how = "ok"          -> PutFile(dir, IntegratedKey(d), IntegratedFile(content, d, Now))
      [] how = "write_error" -> PutFile(dir, IntegratedKey(d), <<>>)
      [] OTHER               -> dir

\* lines 91-114: the introduction is generated, the report assembled and
\* saved; a save that raises is caught and the call returns ""
IntegrateFinish ==
    /\ o_pc = "sliding"
    /\ s_pc = "done"
    /\ \E o \in IntroOutcomes, how \in SaveResults :
          LET final_content == AssembleFinalContent(toc_content, Introduction(o),
                                                    s_ret, meta_summary_content)
          IN  /\ o_ret' = IF how = "ok" THEN final_content ELSE <<>>
              /\ o_intro' = o
              /\ integrated_dir' = IntegratedDirAfter(integrated_dir, final_content,
                                                      AnalysisDepth, how)
    /\ o_pc' = "done"
    /\ UNCHANGED <<o_rest, max_workers, gvars, pvars, svars, toc_dir, toc_content,
                   meta_summary_content>>

(***************************************************************************)
(* main (cli.py lines 178-264), from the call of                           *)
(* generate_interval_summaries (line 239) to the end, run with a           *)
(* SummaryGenerator at hand.                                               *)
(***************************************************************************)
\* lines 239-243: generate_interval_summaries returned;
\* generate_meta_summary is called
MainCallMetaSummary ==
    /\ m_pc = "interval_summaries"
    /\ g_pc = "done"
    /\ m_pc' = "meta_summary"
    /\ ms_pc' = "call"
    /\ UNCHANGED <<m_rest, max_workers, gvars, pvars, svars, ovars, ms_ret,
                   ms_kind, meta_dir, meta_calls>>

\* lines 243-254: generate_meta_summary returned and integrate_output is
\* called; or it raised and the handler of lines 262-264 ends the run
MainCallIntegrate ==
    /\ m_pc = "meta_summary"
    /\ ms_pc \in {"returned", "raised"}
    /\ IF ms_pc = "raised"
       THEN m_pc' = "except" /\ o_pc' = o_pc
       ELSE m_pc' = "integrate" /\ o_pc' = "call"
    /\ UNCHANGED <<m_rest, max_workers, gvars, pvars, svars, msvars, toc_dir,
                   toc_content, meta_summary_content, o_ret, integrated_dir,
                   o_intro>>

\* lines 254-258: integrate_output returned; the run ends
MainDone ==
    /\ m_pc = "integrate"
    /\ o_pc = "done"
    /\ m_pc' = "done"
    /\ UNCHANGED <<m_rest, max_workers, gvars, pvars, svars, msvars, ovars>>

\* lines 262-264: the handler prints the error, and main returns
MainExcept ==
    /\ m_pc = "except"
    /\ m_pc' = "ended"
    /\ UNCHANGED <<m_rest, max_workers, gvars, pvars, svars, msvars, ovars>>

\* the chunk records handed to line 239: with two items or without content
StageRecordLists(T) ==
    {[p \in 1..T |-> ChunkRecord(p - 1, f[p], IF f[p] THEN 2 ELSE 0)] :
        f \in [1..T -> BOOLEAN]}

InitStages ==
    /\ m_pc = "interval_summaries"
    /\ \E T \in 0..MaxStageChunks : chunks_results \in StageRecordLists(T)
    /\ interval = 1
    /\ max_workers \in 1..MaxWorkers
    /\ summary_dir \in StaleSummaryDirs
    /\ IntervalsStart
    /\ ms_pc = "wait"
    /\ ms_ret = NoValue
    /\ ms_kind = NoValue
    /\ meta_dir \in StaleMetaDirs
    /\ meta_calls = <<>>
    /\ o_pc = "wait"
    /\ toc_dir = PutFile(<<>>, TocKey, <<"toc">>)
    /\ toc_content = NoValue
    /\ meta_summary_content = NoValue
    /\ o_ret = NoValue
    /\ integrated_dir = <<>>
    /\ o_intro = NoValue
    /\ ChunksOff /\ SlidingOff /\ AnalyzeOff /\ LoadOff /\ MoreOff

NextStages ==
    \/ NextIntervals
    \/ MainCallMetaSummary
    \/ GenerateMetaSummary
    \/ MainCallIntegrate
    \/ IntegrateEnter
    \/ NextSliding
    \/ IntegrateFinish
    \/ MainDone
    \/ MainExcept

SpecStages == InitStages /\ [][NextStages]_vars

(***************************************************************************)
(* main (cli.py lines 178-264), from the chunk analysis (line 230) on.     *)
(***************************************************************************)
\* summary_generator.py line 19: the parameters of SummaryGenerator.__init__
\* after self
SummaryGeneratorParams == <<"llm", "summary_dir", "meta_summary_dir", "file_name">>

\* cli.py line 236: the call passes four positional arguments and depth=
ConstructPositional == 4
ConstructKeywords == {"depth"}

\* a Python call binds: no more positional arguments than parameters, and
\* every keyword names a parameter that no positional argument filled;
\* otherwise the call raises TypeError
CallBinds(params, positional, keywords) ==
    /\ positional <= Len(params)
    /\ \A k \in keywords :
          \E p \in (positional + 1)..Len(params) : params[p] = k

\* lines 232-239: process_chunks returned; SummaryGenerator is constructed
\* and generate_interval_summaries called with the chunk results, or the
\* construction raises and the handler of line 262 is entered
MainConstructSummaryGenerator ==
    /\ m_pc = "process_chunks"
    /\ p_pc = "done"
    /\ LET constructed == CallBinds(SummaryGeneratorParams, ConstructPositional,
                                    ConstructKeywords)
       IN  /\ m_pc' = IF constructed THEN "interval_summaries" ELSE "except"
           /\ g_pc' = IF constructed THEN "group" ELSE g_pc
           /\ chunks_results' = IF constructed THEN p_ret ELSE chunks_results
    /\ UNCHANGED <<m_rest, max_workers, pvars, svars, msvars, ovars, interval, g_i,
                   interval_knowledge, interval_knowledge_groups, g_task,
                   summaries, g_ret, summary_dir, flush_log, gen_calls>>

InitMain ==
    /\ m_pc = "process_chunks"
    /\ \E N \in 0..MaxStageChunks : chunks = [p \in 1..N |-> "chunk" \o ToString(p - 1)]
    /\ max_workers \in 1..MaxWorkers
    /\ depth = AnalysisDepth
    /\ p_pc = "submit"
    /\ p_task = <<>>
    /\ results = <<>>
    /\ p_ret = NoValue
    /\ knowledge_dir = <<>>
    /\ chunks_results = <<>>
    /\ interval = SUMMARY_INTERVAL
    /\ g_pc = "wait"
    /\ g_i = 0
    /\ interval_knowledge = <<>>
    /\ interval_knowledge_groups = <<>>
    /\ g_task = <<>>
    /\ summaries = <<>>
    /\ g_ret = NoValue
    /\ summary_dir = <<>>
    /\ flush_log = <<>>
    /\ gen_calls = <<>>
    /\ ms_pc = "wait"
    /\ ms_ret = NoValue
    /\ ms_kind = NoValue
    /\ meta_dir = <<>>
    /\ meta_calls = <<>>
    /\ o_pc = "wait"
    /\ toc_dir = PutFile(<<>>, TocKey, <<"toc">>)
    /\ toc_content = NoValue
    /\ meta_summary_content = NoValue
    /\ o_ret = NoValue
    /\ integrated_dir = <<>>
    /\ o_intro = NoValue
    /\ SlidingOff /\ AnalyzeOff /\ LoadOff /\ MoreOff

\* the steps main can take from line 230: the construction of line 236
\* raises, so the statements after it are not among them
NextMain ==
    \/ NextChunks
    \/ MainConstructSummaryGenerator
    \/ MainExcept

SpecMain == InitMain /\ [][NextMain]_vars

(***************************************************************************)
(* Both parts of main together: the runs from line 230, and the runs of    *)
(* lines 239-258 with a SummaryGenerator at hand.                          *)
(***************************************************************************)
InitBarriers == InitMain \/ InitStages

NextBarriers == NextMain \/ NextStages

SpecBarriers == InitBarriers /\ [][NextBarriers]_vars

(***************************************************************************)
(* OutputIntegrator._assemble_final_content (output_integrator.py lines    *)
(* 253-308) called again and again by one OutputIntegrator with the same   *)
(* arguments, the wall clock moving on from call to call.                  *)
(***************************************************************************)
\* the texts of one integrated section
SectionTexts == {<<"A">>, <<"B">>}

\* the lists of sections _sliding_window_integration can hand over
SectionLists ==
    UNION {[1..n -> SectionTexts] : n \in 0..MaxSections}

\* one call: the report is assembled and returned
AssembleCall ==
    /\ r_pc = "call"
    /\ Len(r_outs) < MaxCalls
    /\ r_clock' = r_clock + 1
    /\ r_outs' = Append(r_outs,
                        AssembleFinalContent(r_toc_content, r_introduction,
                                             r_sections, r_meta_summary))
    /\ UNCHANGED <<r_rest, max_workers, gvars, pvars, svars, r_pc, r_toc_content,
                   r_introduction, r_sections, r_meta_summary>>

InitAssemble ==
    /\ r_pc = "call"
    /\ r_toc_content \in {TocPlaceholder, <<"toc">>}
    /\ r_introduction \in {<<>>, IntroFallback, <<"introduction">>}
    /\ r_sections \in SectionLists
    /\ r_meta_summary \in {MetaPlaceholder, <<"meta">>}
    /\ r_clock = 0
    /\ r_outs = <<>>
    /\ max_workers = 1
    /\ IntervalsOff /\ ChunksOff /\ SlidingOff
    /\ AnalyzeOff /\ LoadOff /\ MetaOff /\ IntegrateOff /\ MainOff
    /\ ConfigOff /\ InterruptOff /\ KeysOff /\ LateOff

NextAssemble == AssembleCall

SpecAssemble == InitAssemble /\ [][NextAssemble]_vars

(***************************************************************************)
(* One call of integrate_output (output_integrator.py lines 35-114) over   *)
(* the directories a run can leave: the toc file present, empty or         *)
(* missing, any interval summaries, a meta-summary or none.                *)
(***************************************************************************)
\* the toc directory: save_toc wrote the toc, left an empty file, or none
TocDirs ==
    {<<>>, PutFile(<<>>, TocKey, <<>>), PutFile(<<>>, TocKey, <<"toc">>)}

InitIntegrate ==
    /\ o_pc = "call"
    /\ toc_dir \in TocDirs
    /\ toc_content = NoValue
    /\ meta_summary_content = NoValue
    /\ o_ret = NoValue
    /\ integrated_dir = <<>>
    /\ o_intro = NoValue
    /\ summary_dir \in SummaryDirs
    /\ meta_dir \in StaleMetaDirs
    /\ ms_pc = "off"
    /\ ms_ret = NoValue
    /\ ms_kind = NoValue
    /\ meta_calls = <<>>
    /\ chunks_results = <<>>
    /\ interval = 1
    /\ g_pc = "off"
    /\ g_i = 0
    /\ interval_knowledge = <<>>
    /\ interval_knowledge_groups = <<>>
    /\ g_task = <<>>
    /\ summaries = <<>>
    /\ g_ret = NoValue
    /\ flush_log = <<>>
    /\ gen_calls = <<>>
    /\ max_workers = 1
    /\ ChunksOff /\ SlidingOff /\ AnalyzeOff /\ LoadOff /\ MainOff /\ MoreOff

NextIntegrate == IntegrateEnter \/ NextSliding \/ IntegrateFinish

SpecIntegrate == InitIntegrate /\ [][NextIntegrate]_vars

(***************************************************************************)
(* The artifact keys of two work items of a run, and the sorted listing    *)
(* that reads them back: integrate_output over the interval summaries      *)
(* (output_integrator.py lines 57-61), load_all_results over the chunk     *)
(* records (chunk_analyzer.py lines 130-134).                              *)
(***************************************************************************)
\* the artifacts of the two numbers are written (chunk_analyzer.py lines
\* 109-120, summary_generator.py lines 80-112)
KeysSave ==
    /\ k_pc = "save"
    /\ IF k_kind = "interval"
       THEN /\ summary_dir' =
                  [k \in {IntervalSummaryKey(k_nums[1]), IntervalSummaryKey(k_nums[2])} |->
                      IF k = IntervalSummaryKey(k_nums[1])
                      THEN IntervalSummaryFile(<<"summary-a">>, k_nums[1], Now)
                      ELSE IntervalSummaryFile(<<"summary-b">>, k_nums[2], Now)]
            /\ UNCHANGED knowledge_dir
       ELSE /\ knowledge_dir' =
                  [k \in {ChunkKey(k_nums[1], depth), ChunkKey(k_nums[2], depth)} |->
                      IF k = ChunkKey(k_nums[1], depth)
                      THEN AnalysisResult(k_nums[1], FALSE, <<>>, depth)
                      ELSE AnalysisResult(k_nums[2], FALSE, <<>>, depth)]
            /\ UNCHANGED summary_dir
    /\ k_pc' = "list"
    /\ UNCHANGED <<k_rest, max_workers, svars, k_kind, k_nums, k_listing,
                   chunks_results, interval, g_pc, g_i, interval_knowledge,
                   interval_knowledge_groups, g_task, summaries, g_ret,
                   flush_log, gen_calls,
                   chunks, depth, p_pc, p_task, results, p_ret>>

\* sorted(glob(...)): the files in the order they are read
KeysList ==
    /\ k_pc = "list"
    /\ k_listing' = IF k_kind = "interval" THEN SummaryFiles(summary_dir, depth)
                    ELSE ResultFiles(knowledge_dir, depth)
    /\ k_pc' = "done"
    /\ UNCHANGED <<k_rest, max_workers, gvars, pvars, svars, k_kind, k_nums>>

\* chunk indices count from 0 (cli.py line 95), interval numbers from 1
\* (cli.py line 156)
InitKeys ==
    /\ k_pc = "save"
    /\ k_kind \in {"chunk", "interval"}
    /\ \E a \in 0..MaxKeyNumber, gap \in 1..MaxKeyGap :
          /\ k_kind = "interval" => a >= 1
          /\ a + gap <= MaxKeyNumber
          /\ k_nums = <<a, a + gap>>
    /\ k_listing = <<>>
    /\ depth = AnalysisDepth
    /\ chunks = <<>>
    /\ p_pc = "off"
    /\ p_task = <<>>
    /\ results = <<>>
    /\ p_ret = NoValue
    /\ knowledge_dir = <<>>
    /\ max_workers = 1
    /\ IntervalsOff /\ SlidingOff
    /\ AnalyzeOff /\ LoadOff /\ MetaOff /\ IntegrateOff /\ MainOff
    /\ ConfigOff /\ InterruptOff /\ AssembleOff /\ LateOff

NextKeys == KeysSave \/ KeysList

SpecKeys == InitKeys /\ [][NextKeys]_vars

(***************************************************************************)
(* main (cli.py lines 178-264) from its start to the pool of               *)
(* process_chunks (line 232, cli.py line 93), for any values of            *)
(* --chunk-size, --overlap, --interval and --workers: argparse takes any   *)
(* integer (lines 67-70).  The chunk analysis that follows is SpecMain.    *)
(***************************************************************************)
\* lines 185-205: the arguments are read, the file is looked up, the
\* Completer client and the directories are set up
MainStart ==
    /\ m_pc = "start"
    /\ \E file_exists \in BOOLEAN :
          m_pc' = IF file_exists THEN "process_document" ELSE "returned"
    /\ UNCHANGED <<c_rest, max_workers, gvars, pvars, svars, ovars, cvars>>

\* lines 209-215 (DocumentProcessor, process, load_text): the file is
\* copied to the workspace and its text loaded; an unsupported format or a
\* text that does not decode raises
MainProcessDocument ==
    /\ m_pc = "process_document"
    /\ \E how \in {"ok", "error"} :
          IF how = "ok"
          THEN /\ work_log' = Append(work_log, "process_document")
               /\ m_pc' = "extract_toc"
          ELSE /\ work_log' = work_log
               /\ m_pc' = "except"
    /\ UNCHANGED <<c_rest, max_workers, gvars, pvars, svars, ovars, chunk_size,
                   chunk_overlap>>

\* toc_extractor.py line 112: response.content.strip(), empty or not
TocReplies == {<<>>, <<"toc">>}

\* toc_extractor.py line 93: the text returned when the call fails
TocFailureText == <<"toc-extraction-failed">>

\* toc_extractor.py lines 58-93 (extract_toc): one Completer call
ExtractToc(o) == IF o.kind = "reply" THEN o.content ELSE TocFailureText

\* toc_extractor.py lines 117-141 (save_toc): the toc directory after the
\* save ended as `how`
TocDirAfter(dir, toc, how) ==
    CASE how = "ok"          -> PutFile(dir, TocKey, toc)
      [] how = "write_error" -> PutFile(dir, TocKey, <<>>)
      [] OTHER               -> dir

\* lines 220-223: extract_toc makes its Completer call, save_toc writes the
\* toc and raises again what the write raised
MainExtractToc ==
    /\ m_pc = "extract_toc"
    /\ \E o \in {[kind |-> "llm_error", content |-> <<>>]}
                \cup {[kind |-> "reply", content |-> c] : c \in TocReplies},
          how \in SaveResults :
          /\ toc_dir' = TocDirAfter(toc_dir, ExtractToc(o), how)
          /\ work_log' = work_log \o <<"completer_call">>
                         \o (IF how = "open_error" THEN <<>> ELSE <<"write_toc">>)
          /\ m_pc' = IF how = "ok" THEN "split_text" ELSE "except"
    /\ UNCHANGED <<c_rest, max_workers, gvars, pvars, svars, o_pc, toc_content,
                   meta_summary_content, o_ret, integrated_dir, o_intro,
                   chunk_size, chunk_overlap>>

\* document_processor.py lines 120-125: RecursiveCharacterTextSplitter
\* refuses an overlap larger than the chunk size
SplitterAccepts(size, overlap) == overlap <= size

\* line 227 (split_text, document_processor.py lines 106-130): the text is
\* split, or the splitter raises
MainSplitText ==
    /\ m_pc = "split_text"
    /\ IF SplitterAccepts(chunk_size, chunk_overlap)
       THEN /\ \E N \in 0..MaxStageChunks :
                  chunks' = [p \in 1..N |-> "chunk" \o ToString(p - 1)]
            /\ m_pc' = "analyze"
       ELSE /\ chunks' = chunks
            /\ m_pc' = "except"
    /\ UNCHANGED <<c_rest, max_workers, gvars, svars, ovars, cvars, depth, p_pc,
                   p_task, results, p_ret, knowledge_dir>>

\* cli.py line 93: ThreadPoolExecutor refuses a pool of less than one worker
PoolAccepts(workers) == workers >= 1

\* lines 231-232 and process_chunks lines 86-93: the analyzer is made and
\* process_chunks entered; the pool is created, or its constructor raises
MainProcessChunks ==
    /\ m_pc = "analyze"
    /\ IF PoolAccepts(max_workers)
       THEN /\ m_pc' = "process_chunks"
            /\ p_pc' = "submit"
       ELSE /\ m_pc' = "except"
            /\ p_pc' = p_pc
    /\ UNCHANGED <<c_rest, max_workers, gvars, svars, ovars, cvars, chunks, depth,
                   p_task, results, p_ret, knowledge_dir>>

InitConfig ==
    /\ m_pc = "start"
    /\ chunk_size \in 1..MaxChunkSize
    /\ chunk_overlap \in 0..(MaxChunkSize + 1)
    /\ interval \in (-1)..MaxInterval
    /\ max_workers \in (-1)..MaxWorkers
    /\ work_log = <<>>
    /\ chunks = <<>>
    /\ depth = AnalysisDepth
    /\ p_pc = "wait"
    /\ p_task = <<>>
    /\ results = <<>>
    /\ p_ret = NoValue
    /\ knowledge_dir = <<>>
    /\ chunks_results = <<>>
    /\ g_pc = "wait"
    /\ g_i = 0
    /\ interval_knowledge = <<>>
    /\ interval_knowledge_groups = <<>>
    /\ g_task = <<>>
    /\ summaries = <<>>
    /\ g_ret = NoValue
    /\ summary_dir = <<>>
    /\ flush_log = <<>>
    /\ gen_calls = <<>>
    /\ ms_pc = "wait"
    /\ ms_ret = NoValue
    /\ ms_kind = NoValue
    /\ meta_dir = <<>>
    /\ meta_calls = <<>>
    /\ o_pc = "wait"
    /\ toc_dir = <<>>
    /\ toc_content = NoValue
    /\ meta_summary_content = NoValue
    /\ o_ret = NoValue
    /\ integrated_dir = <<>>
    /\ o_intro = NoValue
    /\ SlidingOff /\ AnalyzeOff /\ LoadOff
    /\ InterruptOff /\ AssembleOff /\ KeysOff /\ LateOff

NextConfig ==
    \/ MainStart
    \/ MainProcessDocument
    \/ MainExtractToc
    \/ MainSplitText
    \/ MainProcessChunks
    \/ MainExcept

SpecConfig == InitConfig /\ [][NextConfig]_vars

(***************************************************************************)
(* process_chunks (cli.py lines 75-117) called by main, with a             *)
(* KeyboardInterrupt raised in the main thread during the loop over        *)
(* as_completed.  The except clause of line 103 catches Exception only, so *)
(* the interrupt leaves the loop; the with block of line 93 exits through  *)
(* shutdown(wait=True), which cancels no future; then the handler of main  *)
(* (lines 260-261) runs.                                                   *)
(***************************************************************************)
\* the interrupt arrives while the loop of lines 98-110 runs
Interrupt ==
    /\ m_pc = "process_chunks"
    /\ p_pc = "collect"
    /\ ~p_interrupt.arrived
    /\ p_interrupt' = [arrived |-> TRUE, not_started |-> Queued(p_task)]
    /\ p_pc' = "shutdown"
    /\ UNCHANGED <<i_rest, m_pc, max_workers, gvars, svars, chunks, depth, p_task,
                   results, p_ret, knowledge_dir>>

\* the exit of the with block returns when the queue is empty and every
\* thread has ended; main prints the cancellation (lines 260-261) and returns
ShutdownReturns ==
    /\ p_pc = "shutdown"
    /\ Queued(p_task) = {}
    /\ Running(p_task) = {}
    /\ p_pc' = "interrupted"
    /\ m_pc' = "cancelled"
    /\ UNCHANGED <<i_rest, p_interrupt, max_workers, gvars, svars, chunks, depth,
                   p_task, results, p_ret, knowledge_dir>>

InitInterrupt == InitMain

NextInterrupt ==
    \/ NextChunks
    \/ Interrupt
    \/ ShutdownReturns

SpecInterrupt == InitInterrupt /\ [][NextInterrupt]_vars

(***************************************************************************)
(* SummaryGenerator.generate_final_summary (summary_generator.py lines     *)
(* 114-153) and _save_final_summary (lines 155-189), called repeatedly on  *)
(* one summaries directory.                                                *)
(***************************************************************************)
\* the largest number of a final summary that is in the directory at first
MaxFinals == 3

\* lines 132-139: the answers of the Completer to call number c
FinalReplies(c) == {<<>>, <<"final#", ToString(c)>>}

\* The ways the try block of generate_final_summary (lines 130-153) can end:
\*   "llm_error"   llm.invoke raises
\*   "reply"       llm.invoke answers with `content`; an empty content is
\*                 not saved (lines 164-166)
\*   "open_error", "write_error"  the answer is non-empty and its save raises
FinalOutcomes(c) ==
    {[kind |-> "llm_error", content |-> <<>>]}
    \cup {[kind |-> "reply", content |-> x] : x \in FinalReplies(c)}
    \cup {[kind |-> k, content |-> x] :
            k \in {"open_error", "write_error"}, x \in FinalReplies(c) \ {<<>>}}

\* lines 169-170: next_number = len(existing_finals) + 1
NextNumber(dir) == Cardinality(GlobPrefix(dir, "final_summary_")) + 1

\* lines 149 and 153: what the call returns
FinalReturn(o) == IF o.kind = "reply" THEN o.content ELSE <<>>

\* line 173: the path chosen, when _save_final_summary gets as far
FinalKeyChosen(dir, o) ==
    IF o.content # <<>> THEN FinalSummaryKey(NextNumber(dir)) ELSE <<>>

\* the summaries directory after the call
FinalDirAfter(dir, o) ==
    IF o.kind = "reply" /\ o.content # <<>>
    THEN PutFile(dir, FinalKeyChosen(dir, o), FinalSummaryFile(o.content, Now))
    ELSE IF o.kind = "write_error"
    THEN PutFile(dir, FinalKeyChosen(dir, o), <<>>)
    ELSE dir

\* lines 114-153: one call runs to its return
GenerateFinalSummary ==
    /\ f_pc = "call"
    /\ Len(f_log) < MaxCalls
    /\ \E all_knowledge \in {<<>>, <<"knowledge">>} :
          IF all_knowledge = <<>>
          THEN \* lines 123-125
               /\ f_log' = Append(f_log, [kind |-> "no_knowledge", ret |-> <<>>,
                                          key |-> <<>>, before |-> summary_dir])
               /\ UNCHANGED summary_dir
          ELSE \E o \in FinalOutcomes(Len(f_log) + 1) :
                  /\ f_log' = Append(f_log,
                                     [kind |-> o.kind, ret |-> FinalReturn(o),
                                      key |-> FinalKeyChosen(summary_dir, o),
                                      before |-> summary_dir])
                  /\ summary_dir' = FinalDirAfter(summary_dir, o)
    /\ UNCHANGED <<f_rest, f_pc, max_workers, pvars, svars, chunks_results,
                   interval, g_pc, g_i, interval_knowledge,
                   interval_knowledge_groups, g_task, summaries, g_ret,
                   flush_log, gen_calls>>

\* the summaries directories a call can find: any set of final summaries
\* numbered up to MaxFinals (files are the user's to remove), next to the
\* interval summaries or not
FinalDirs ==
    {[k \in {FinalSummaryKey(n) : n \in ns}
            \cup (IF with THEN {IntervalSummaryKey(1)} ELSE {}) |->
        IF k = IntervalSummaryKey(1)
        THEN IntervalSummaryFile(<<"summary">>, 1, Now)
        ELSE FinalSummaryFile(<<"earlier-final">>, Now)] :
     ns \in SUBSET (1..MaxFinals), with \in BOOLEAN}

InitFinal ==
    /\ f_pc = "call"
    /\ f_log = <<>>
    /\ chunks_results = <<>>
    /\ interval = 1
    /\ g_pc = "off"
    /\ g_i = 0
    /\ interval_knowledge = <<>>
    /\ interval_knowledge_groups = <<>>
    /\ g_task = <<>>
    /\ summaries = <<>>
    /\ g_ret = NoValue
    /\ summary_dir \in FinalDirs
    /\ flush_log = <<>>
    /\ gen_calls = <<>>
    /\ max_workers = 1
    /\ ChunksOff /\ SlidingOff
    /\ AnalyzeOff /\ LoadOff /\ MetaOff /\ IntegrateOff /\ MainOff
    /\ ConfigOff /\ InterruptOff /\ AssembleOff /\ KeysOff
    /\ RetryOff /\ PollOff /\ AdapterOff

NextFinal == GenerateFinalSummary

SpecFinal == InitFinal /\ [][NextFinal]_vars

(***************************************************************************)
(* PDFToMarkdownConverter._make_request_with_retry (pdf_converter.py lines *)
(* 234-261).  PDF_API_RETRY_COUNT is imported from config (line 17); its   *)
(* value is any number of attempts up to MaxRetryCount, none included.     *)
(***************************************************************************)
MaxRetryCount == 3

\* lines 97, 137 and 193: the three requests made through the function
RequestKinds == {"upload", "status", "download"}

\* lines 249-251: session.request raises, raise_for_status raises, or the
\* response is returned
AttemptOutcomes == {"connection_error", "http_error", "ok"}

\* (a variant that keeps the exception of the first attempt)
RecordExceptionKeepFirst(last_exception, e) ==
    IF last_exception = NoException THEN e ELSE last_exception

\* line 254: last_exception = e
RecordException(last_exception, e) == e

\* line 261: raise last_exception; raising None is a TypeError
RaiseLast(last_exception) ==
    IF last_exception = NoException
    THEN [kind |-> "TypeError", attempt |-> -1]
    ELSE last_exception

\* lines 247-259: one attempt of the loop
Attempt ==
    /\ q_pc = "request"
    /\ q_attempt < PDF_API_RETRY_COUNT
    /\ \E out \in AttemptOutcomes :
          /\ q_log' = Append(q_log, out)
          /\ IF out = "ok"
             THEN \* line 251
                  /\ q_pc' = "returned"
                  /\ q_ret' = [kind |-> "response", attempt |-> q_attempt]
                  /\ UNCHANGED <<q_attempt, q_last_exception>>
             ELSE \* lines 253-259
                  /\ q_last_exception' =
                        RecordException(q_last_exception,
                                        [kind |-> out, attempt |-> q_attempt])
                  /\ IF q_attempt < PDF_API_RETRY_COUNT - 1
                     THEN q_pc' = "sleep" /\ UNCHANGED q_attempt
                     ELSE q_pc' = "request" /\ q_attempt' = q_attempt + 1
                  /\ UNCHANGED q_ret
    /\ UNCHANGED <<q_rest, PDF_API_RETRY_COUNT, q_kind, max_workers, gvars,
                   pvars, svars>>

\* line 257: time.sleep(PDF_API_RETRY_DELAY) returns, the loop goes on
RetrySleep ==
    /\ q_pc = "sleep"
    /\ q_pc' = "request"
    /\ q_attempt' = q_attempt + 1
    /\ UNCHANGED <<q_rest, PDF_API_RETRY_COUNT, q_kind, q_last_exception,
                   q_log, q_ret, max_workers, gvars, pvars, svars>>

\* line 261: the range is exhausted
RetryExhausted ==
    /\ q_pc = "request"
    /\ q_attempt >= PDF_API_RETRY_COUNT
    /\ q_pc' = "raised"
    /\ q_ret' = RaiseLast(q_last_exception)
    /\ UNCHANGED <<q_rest, PDF_API_RETRY_COUNT, q_kind, q_attempt,
                   q_last_exception, q_log, max_workers, gvars, pvars, svars>>

InitRetry ==
    /\ PDF_API_RETRY_COUNT \in 0..MaxRetryCount
    /\ q_pc = "request"
    /\ q_kind \in RequestKinds
    /\ q_attempt = 0
    /\ q_last_exception = NoException
    /\ q_log = <<>>
    /\ q_ret = NoException
    /\ max_workers = 1
    /\ IntervalsOff /\ ChunksOff /\ SlidingOff
    /\ AnalyzeOff /\ LoadOff /\ MetaOff /\ IntegrateOff /\ MainOff
    /\ ConfigOff /\ InterruptOff /\ AssembleOff /\ KeysOff
    /\ FinalOff /\ PollOff /\ AdapterOff

NextRetry == Attempt \/ RetrySleep \/ RetryExhausted

SpecRetry == InitRetry /\ [][NextRetry]_vars

(***************************************************************************)
(* PDFToMarkdownConverter._wait_for_completion (pdf_converter.py lines     *)
(* 124-171).  Time is counted in units of 5 seconds: time.sleep(10) is 2   *)
(* units, time.sleep(5) is 1.  PDF_API_TIMEOUT is imported from config     *)
(* (line 16); its value is any number of units up to MaxTimeout.           *)
(***************************************************************************)
MaxTimeout == 3

\* the longest one status query takes, retries and their delays included
MaxQueryTime == 1

\* elapsed time is compared with PDF_API_TIMEOUT only (line 161)
Elapse(elapsed, d, timeout) ==
    IF elapsed + d > timeout THEN timeout + 1 ELSE elapsed + d

\* The ways one status query (lines 137-157) can end:
\*   "request_error" _make_request_with_retry raises (line 137)
\*   "malformed"     response.json() raises, or the body has no usable
\*                   `data` (lines 138-144)
\*   "code_error"    the body's code is not 0 (lines 140-141); `msg` is the
\*                   server's text
\*   "status"        overall_status is read (line 144)
StatusValues ==
    {"completed", "success", "finished", "failed", "error",
     "processing", "running", "pending", "queued", "unknown", "paused"}

ServerMessages == {<<"busy">>, <<"processing-failed">>}

StatusOutcomes ==
    {[kind |-> "request_error", status |-> NoValue, msg |-> <<"refused">>],
     [kind |-> "malformed", status |-> NoValue, msg |-> <<"no json">>]}
    \cup {[kind |-> "code_error", status |-> NoValue, msg |-> m] :
            m \in ServerMessages}
    \cup {[kind |-> "status", status |-> v, msg |-> m] :
            v \in StatusValues, m \in {<<"busy">>}}

\* line 162: the message of the timeout exception
TimeoutMessage == <<"processing-timeout", " (", "PDF_API_TIMEOUT", "s)">>

\* lines 137-162: the message of the exception the try block raises for
\* outcome o at elapsed time `elapsed`; <<>> when it raises none
RaisedInTry(o, elapsed, timeout) ==
    IF o.kind \in {"request_error", "malformed"} THEN o.msg
    ELSE IF o.kind = "code_error" THEN <<"status-query-failed: ">> \o o.msg
    ELSE IF o.status \in {"completed", "success", "finished"} THEN <<>>
    ELSE IF o.status \in {"failed", "error"}
    THEN <<"PDF", "processing-failed", ": ">> \o o.msg
    ELSE IF elapsed > timeout THEN TimeoutMessage
    ELSE <<>>

\* line 168: "处理超时" in str(e) or "处理失败" in str(e)
Reraised(message) ==
    \E p \in DOMAIN message :
        message[p] \in {"processing-timeout", "processing-failed"}

\* lines 135-171: one pass of the loop, up to its sleep, return or raise
StatusQuery ==
    /\ w_pc = "query"
    /\ \E o \in StatusOutcomes, d \in 0..MaxQueryTime :
          LET elapsed == Elapse(w_elapsed, d, PDF_API_TIMEOUT)
              message == RaisedInTry(o, elapsed, PDF_API_TIMEOUT)
          IN  /\ w_elapsed' = elapsed
              /\ IF message = <<>>
                 THEN IF o.status \in {"completed", "success", "finished"}
                      THEN \* line 149
                           /\ w_pc' = "returned"
                           /\ UNCHANGED <<w_raised, w_errored>>
                      ELSE \* line 165
                           /\ w_pc' = "sleep10"
                           /\ UNCHANGED <<w_raised, w_errored>>
                 ELSE IF Reraised(message)
                      THEN \* line 169
                           /\ w_pc' = "raised"
                           /\ w_raised' = message
                           /\ UNCHANGED w_errored
                      ELSE \* lines 170-171
                           /\ w_pc' = "sleep5"
                           /\ w_errored' = TRUE
                           /\ UNCHANGED w_raised
    /\ w_late' = IF w_elapsed > PDF_API_TIMEOUT /\ w_late < 2
                 THEN w_late + 1 ELSE w_late
    /\ UNCHANGED <<w_rest, PDF_API_TIMEOUT, max_workers, gvars, pvars, svars>>

\* line 165: time.sleep(10) returns
SleepTen ==
    /\ w_pc = "sleep10"
    /\ w_pc' = "query"
    /\ w_elapsed' = Elapse(w_elapsed, 2, PDF_API_TIMEOUT)
    /\ UNCHANGED <<w_rest, PDF_API_TIMEOUT, w_raised, w_late, w_errored,
                   max_workers, gvars, pvars, svars>>

\* line 171: time.sleep(5) returns
SleepFive ==
    /\ w_pc = "sleep5"
    /\ w_pc' = "query"
    /\ w_elapsed' = Elapse(w_elapsed, 1, PDF_API_TIMEOUT)
    /\ UNCHANGED <<w_rest, PDF_API_TIMEOUT, w_raised, w_late, w_errored,
                   max_workers, gvars, pvars, svars>>

InitPoll ==
    /\ PDF_API_TIMEOUT \in 0..MaxTimeout
    /\ w_pc = "query"
    /\ w_elapsed = 0
    /\ w_raised = <<>>
    /\ w_late = 0
    /\ w_errored = FALSE
    /\ max_workers = 1
    /\ IntervalsOff /\ ChunksOff /\ SlidingOff
    /\ AnalyzeOff /\ LoadOff /\ MetaOff /\ IntegrateOff /\ MainOff
    /\ ConfigOff /\ InterruptOff /\ AssembleOff /\ KeysOff
    /\ FinalOff /\ RetryOff /\ AdapterOff

NextPoll == StatusQuery \/ SleepTen \/ SleepFive

SpecPoll == InitPoll /\ [][NextPoll]_vars

\* the one thread of the call keeps running: a query ends with one of its
\* outcomes and a sleep returns
SpecPollFair == SpecPoll /\ WF_vars(StatusQuery) /\ WF_vars(SleepTen)
                /\ WF_vars(SleepFive)

(***************************************************************************)
(* UnifiedPDFConverter (pdf_converter_adapter.py): __init__ (lines 16-37), *)
(* switch_to_local (202-208), switch_to_server (210-216) and               *)
(* get_converter_type (218-220).  An options dict is a function from       *)
(* option names to values.                                                 *)
(***************************************************************************)
\* the number of switch calls followed
MaxSwitches == 3

\* the keyword options a caller passes
CallOptions ==
    {<<>>,
     [k \in {"base_url"} |-> "http://host"],
     [k \in {"dpi"} |-> "300"]}

\* dict.update (lines 206 and 214)
UpdateOptions(options, more) ==
    [k \in DOMAIN options \cup DOMAIN more |->
        IF k \in DOMAIN more THEN more[k] ELSE options[k]]

\* local_pdf_converter.py lines 16-35: LocalPDFToMarkdownConverter(**options)
\* takes every keyword
LocalAccepts(options) == TRUE

\* pdf_converter.py lines 26-34: PDFToMarkdownConverter(**options) takes the
\* keyword base_url and refuses any other with a TypeError
ServerAccepts(options) == DOMAIN options \subseteq {"base_url"}

\* the instance constructed by the id-th call of the run
NewConverter(class, options, id) ==
    [class |-> class, options |-> options, id |-> id]

\* lines 218-220
GetConverterType == IF use_local THEN "local" ELSE "server"

\* the state a call finds
AdapterState(call) ==
    [call |-> call, raised |-> FALSE, use_local |-> use_local,
     converter |-> converter, local_options |-> local_options,
     server_options |-> server_options]

\* lines 202-208
SwitchToLocal ==
    /\ u_pc = "ready"
    /\ u_made < MaxSwitches + 1
    /\ \E options \in CallOptions :
          IF ~use_local
          THEN LET merged == UpdateOptions(local_options, options)
               IN  /\ use_local' = TRUE
                   /\ local_options' = merged
                   /\ IF LocalAccepts(merged)
                      THEN /\ converter' = NewConverter("local", merged, u_made + 1)
                           /\ u_last' = AdapterState("switch_to_local")
                      ELSE /\ UNCHANGED converter
                           /\ u_last' = [AdapterState("switch_to_local")
                                           EXCEPT !.raised = TRUE]
                   /\ u_made' = u_made + 1
                   /\ UNCHANGED server_options
          ELSE /\ u_last' = AdapterState("switch_to_local")
               /\ u_made' = u_made + 1
               /\ UNCHANGED <<use_local, local_options, server_options,
                              converter>>
    /\ UNCHANGED <<u_rest, u_pc, max_workers, gvars, pvars, svars>>

\* lines 210-216
SwitchToServer ==
    /\ u_pc = "ready"
    /\ u_made < MaxSwitches + 1
    /\ \E options \in CallOptions :
          IF use_local
          THEN LET merged == UpdateOptions(server_options, options)
               IN  /\ use_local' = FALSE
                   /\ server_options' = merged
                   /\ IF ServerAccepts(merged)
                      THEN /\ converter' = NewConverter("server", merged, u_made + 1)
                           /\ u_last' = AdapterState("switch_to_server")
                      ELSE /\ UNCHANGED converter
                           /\ u_last' = [AdapterState("switch_to_server")
                                           EXCEPT !.raised = TRUE]
                   /\ u_made' = u_made + 1
                   /\ UNCHANGED local_options
          ELSE /\ u_last' = AdapterState("switch_to_server")
               /\ u_made' = u_made + 1
               /\ UNCHANGED <<use_local, local_options, server_options,
                              converter>>
    /\ UNCHANGED <<u_rest, u_pc, max_workers, gvars, pvars, svars>>

\* lines 16-37: the object after a construction that returned
InitAdapter ==
    /\ u_pc = "ready"
    /\ use_local \in BOOLEAN
    /\ local_options \in CallOptions
    /\ server_options \in CallOptions
    /\ IF use_local THEN LocalAccepts(local_options)
                    ELSE ServerAccepts(server_options)
    /\ converter = IF use_local THEN NewConverter("local", local_options, 1)
                   ELSE NewConverter("server", server_options, 1)
    /\ u_made = 1
    /\ u_last = NoCall
    /\ max_workers = 1
    /\ IntervalsOff /\ ChunksOff /\ SlidingOff
    /\ AnalyzeOff /\ LoadOff /\ MetaOff /\ IntegrateOff /\ MainOff
    /\ ConfigOff /\ InterruptOff /\ AssembleOff /\ KeysOff
    /\ FinalOff /\ RetryOff /\ PollOff

NextAdapter == SwitchToLocal \/ SwitchToServer

SpecAdapter == InitAdapter /\ [][NextAdapter]_vars

(***************************************************************************)
(* Properties of generate_interval_summaries.                              *)
(***************************************************************************)
TotalChunks == Len(chunks_results)

GroupingDone == g_i = TotalChunks

CeilDiv(a, b) == (a + b - 1) \div b

\* what the record at position i contributes to its group
Contribution(i) ==
    IF chunks_results[i + 1].has_content THEN chunks_results[i + 1].knowledge
    ELSE <<>>

\* the contributions of positions lo..hi, in ascending position
KnowledgeBetween(lo, hi) ==
    Flatten([q \in 1..(hi - lo + 1) |-> Contribution(lo + q - 1)])

NonEmptyFlushes == {j \in DOMAIN flush_log : flush_log[j].acc # <<>>}

\* C1: a flush is evaluated exactly at the positions i with (i+1) mod k = 0
\* or i = T-1, in ascending order, so the finished loop has evaluated
\* ceil(T/k) flushes; the number of groups equals the number of flushes that
\* found a non-empty accumulator, hence is at most ceil(T/k), and 0 for T = 0.
C1_FlushPoints ==
    /\ \A j \in DOMAIN flush_log :
          /\ flush_log[j].pos < g_i
          /\ \/ (flush_log[j].pos + 1) % interval = 0
             \/ flush_log[j].pos = TotalChunks - 1
          /\ j > 1 => flush_log[j - 1].pos < flush_log[j].pos
    /\ \A i \in 0..(g_i - 1) :
          ((i + 1) % interval = 0 \/ i = TotalChunks - 1)
             => \E j \in DOMAIN flush_log : flush_log[j].pos = i
    /\ GroupingDone => Len(flush_log) = CeilDiv(TotalChunks, interval)
    /\ Len(interval_knowledge_groups) = Cardinality(NonEmptyFlushes)
    /\ Len(interval_knowledge_groups) <= CeilDiv(TotalChunks, interval)
    /\ TotalChunks = 0 => interval_knowledge_groups = <<>>

\* C1's case: the loop is over, the last chunk is off the boundary, and
\* there are flushes with and without knowledge
C1_Witness ==
    /\ GroupingDone
    /\ TotalChunks % interval # 0
    /\ TotalChunks > interval
    /\ NonEmptyFlushes # {}
    /\ NonEmptyFlushes # DOMAIN flush_log

\* C2: the groups, concatenated in group order, are exactly the knowledge
\* of the records with has_content = true in ascending position (together
\* with the accumulator while the loop runs): nothing lost, nothing twice.
C2_NoKnowledgeLost ==
    /\ Flatten(interval_knowledge_groups) \o interval_knowledge
          = KnowledgeBetween(0, g_i - 1)
    /\ GroupingDone =>
          Flatten(interval_knowledge_groups) = KnowledgeBetween(0, TotalChunks - 1)

\* C2's case: the last chunk lies after the last multiple-of-k boundary and
\* has knowledge, and a record without content carries knowledge
C2_Witness ==
    /\ GroupingDone
    /\ TotalChunks % interval # 0
    /\ TotalChunks > interval
    /\ Contribution(TotalChunks - 1) # <<>>
    /\ \E i \in 0..(TotalChunks - 1) :
          /\ ~chunks_results[i + 1].has_content
          /\ chunks_results[i + 1].knowledge # <<>>

\* C3: the boundary counts chunks: the accumulator is empty at the start of
\* every window of k positions (and after the last record), every flush
\* sees exactly the knowledge of its own window [m*k, min((m+1)*k, T) - 1],
\* and that is what the group it closes holds.
C3_WindowsCountChunks ==
    /\ (g_i % interval = 0 \/ GroupingDone) => interval_knowledge = <<>>
    /\ \A j \in DOMAIN flush_log :
          LET pos == flush_log[j].pos
              m   == pos \div interval
              hi  == IF (m + 1) * interval <= TotalChunks
                     THEN (m + 1) * interval - 1 ELSE TotalChunks - 1
          IN  /\ pos = hi
              /\ flush_log[j].acc = KnowledgeBetween(m * interval, hi)
              /\ flush_log[j].acc # <<>> =>
                    /\ flush_log[j].closed \in DOMAIN interval_knowledge_groups
                    /\ interval_knowledge_groups[flush_log[j].closed]
                          = KnowledgeBetween(m * interval, hi)

\* C3's case: a window holds a record without content before one with
\* content, and a later window closed a group too
C3_Witness ==
    /\ GroupingDone
    /\ interval >= 2
    /\ Len(interval_knowledge_groups) >= 2
    /\ ~chunks_results[1].has_content
    /\ Contribution(1) # <<>>

\* C4: every closed group is non-empty; a flush with an empty accumulator
\* leaves the number of groups as it was and one with knowledge adds one;
\* the work item submitted for the n-th closed group carries interval
\* number n, so the numbers are 1..G without gaps in closing order.
C4_IntervalNumbers ==
    /\ \A g \in DOMAIN interval_knowledge_groups :
          interval_knowledge_groups[g] # <<>>
    /\ \A j \in DOMAIN flush_log :
          LET before == IF j = 1 THEN 0 ELSE flush_log[j - 1].closed
          IN  flush_log[j].closed =
                 IF flush_log[j].acc = <<>> THEN before ELSE before + 1
    /\ g_pc # "group" =>
          /\ DOMAIN g_task = 0..(Len(interval_knowledge_groups) - 1)
          /\ {g_task[idx].interval_num : idx \in DOMAIN g_task}
                = 1..Len(interval_knowledge_groups)
          /\ \A idx \in DOMAIN g_task :
                /\ g_task[idx].knowledge
                      = interval_knowledge_groups[g_task[idx].interval_num]
                /\ \E j \in NonEmptyFlushes :
                      /\ flush_log[j].closed = g_task[idx].interval_num
                      /\ flush_log[j].acc = g_task[idx].knowledge

\* C4's case: the work items are submitted, and a flush that found the
\* accumulator empty lies between the flushes that closed groups 1 and 2
C4_Witness ==
    /\ g_pc = "collect"
    /\ Len(interval_knowledge_groups) >= 2
    /\ \E j \in DOMAIN flush_log :
          /\ flush_log[j].acc = <<>>
          /\ 0 < flush_log[j].closed
          /\ flush_log[j].closed < Len(interval_knowledge_groups)

ScenarioGroup3 ==
    IF chunks_results[12].has_content THEN <<"k10.1", "k11.1">> ELSE <<"k10.1">>

\* C5: in the scenario the flushes are evaluated after chunks 5, 10 and 12
\* (positions 4, 9, 11); group 1 holds the items of chunks 1,2,4,5, group 2
\* those of chunks 6,7,9,10, group 3 the item of chunk 11 and, when chunk 12
\* has content, the item of chunk 12.
C5_Scenario ==
    GroupingDone =>
        /\ [j \in DOMAIN flush_log |-> flush_log[j].pos] = <<4, 9, 11>>
        /\ interval_knowledge_groups =
              << <<"k0.1", "k1.1", "k3.1", "k4.1">>,
                 <<"k5.1", "k6.1", "k8.1", "k9.1">>,
                 ScenarioGroup3 >>

\* C5's case: the scenario's loop is over and chunk 12 has content
C5_Witness ==
    /\ GroupingDone
    /\ TotalChunks = 12
    /\ interval = 5
    /\ chunks_results[12].has_content
    /\ Len(interval_knowledge_groups[3]) = 2

\* C7: generate_interval_summary is entered exactly once per group, and the
\* returned list has one entry per group, entry p being what the call for
\* interval number p returned, whatever the order of completion.
C7_SummariesInGroupOrder ==
    /\ \A idx \in DOMAIN gen_calls : gen_calls[idx] <= 1
    /\ g_pc = "done" =>
          /\ DOMAIN gen_calls = 0..(Len(interval_knowledge_groups) - 1)
          /\ \A idx \in DOMAIN gen_calls : gen_calls[idx] = 1
          /\ Len(g_ret) = Len(interval_knowledge_groups)
          /\ \A idx \in DOMAIN g_task :
                g_ret[g_task[idx].interval_num] = g_task[idx].ret

\* C7's case: the summaries completed out of order and differ
C7_Witness ==
    /\ g_pc = "done"
    /\ Len(summaries) >= 2
    /\ summaries[1][1] > summaries[2][1]
    /\ g_ret[1] # g_ret[2]

(***************************************************************************)
(* Properties of process_chunks.                                           *)
(***************************************************************************)
\* C6: process_chunks returns exactly one record per chunk index 0..N-1 in
\* ascending chunk_idx, whatever the pool size, the order of completion and
\* the analyses that fail: every chunk was analysed and handed over; the
\* record of a chunk whose analysis returned is the record it returned, and
\* the one of a chunk whose analysis raised is an empty record with the
\* error.
C6_OneRecordPerChunk ==
    p_pc = "done" =>
        /\ Len(p_ret) = Len(chunks)
        /\ \A chunk_idx \in 0..(Len(chunks) - 1) :
              /\ p_ret[chunk_idx + 1].chunk_idx = chunk_idx
              /\ p_task[chunk_idx].state = "collected"
              /\ IF p_task[chunk_idx].raised
                 THEN /\ ~p_ret[chunk_idx + 1].has_content
                      /\ p_ret[chunk_idx + 1].knowledge = <<>>
                      /\ p_ret[chunk_idx + 1].error # NoValue
                 ELSE p_ret[chunk_idx + 1] = p_task[chunk_idx].ret

\* C6's case: three chunks completed out of order; one analysis raised, one
\* returned an error record and a sibling returned knowledge
C6_Witness ==
    /\ p_pc = "done"
    /\ Len(chunks) >= 3
    /\ results[1].chunk_idx > results[2].chunk_idx
    /\ \E a, b, c \in DOMAIN p_task :
          /\ p_task[a].raised
          /\ ~p_task[b].raised /\ p_task[b].ret.error # NoValue
          /\ ~p_task[c].raised /\ p_task[c].ret.has_content
          /\ a < c

(***************************************************************************)
(* Properties of _sliding_window_integration.                              *)
(***************************************************************************)
NumSummaries == Len(interval_summaries)

\* C8: for n >= 2 summaries the returned sequence has length n-1; for n = 1
\* it is the single summary and no Completer call was made; for n = 0 it is
\* empty and no call was made; whichever merge calls fail.
C8_SlidingLength ==
    s_pc = "done" =>
        /\ NumSummaries >= 2 => Len(s_ret) = NumSummaries - 1
        /\ NumSummaries = 1 => s_ret = <<interval_summaries[1]>> /\ llm_calls = <<>>
        /\ NumSummaries = 0 => s_ret = <<>> /\ llm_calls = <<>>

\* C8's case: three or more summaries, with a failed and a successful merge
C8_Witness ==
    /\ s_pc = "done"
    /\ NumSummaries >= 3
    /\ \E a, b \in DOMAIN llm_calls : llm_calls[a].failed /\ ~llm_calls[b].failed

\* C9: for n >= 2 there are exactly n-1 merge calls, the i-th over positions
\* i and i+1 with both texts in its prompt, and output[i] is what call i
\* answered; an interior summary is an input of exactly two calls, the first
\* and the last of exactly one.
C9_AdjacentPairs ==
    (s_pc = "done" /\ NumSummaries >= 2) =>
        /\ Len(llm_calls) = NumSummaries - 1
        /\ \A c \in DOMAIN llm_calls :
              /\ llm_calls[c].i = c - 1
              /\ llm_calls[c].pair = <<c - 1, c>>
              /\ ContainsInOrder(llm_calls[c].prompt, interval_summaries[c],
                                 interval_summaries[c + 1])
              /\ ~llm_calls[c].failed => s_ret[c] = llm_calls[c].content
        /\ \A q \in 0..(NumSummaries - 1) :
              Cardinality({c \in DOMAIN llm_calls :
                              q \in {llm_calls[c].pair[1], llm_calls[c].pair[2]}})
                 = IF q \in {0, NumSummaries - 1} THEN 1 ELSE 2

\* C9's case: there is an interior summary, and its two merges answered
C9_Witness ==
    /\ s_pc = "done"
    /\ NumSummaries >= 3
    /\ ~llm_calls[1].failed /\ llm_calls[1].content # <<>>
    /\ ~llm_calls[2].failed /\ llm_calls[2].content # <<>>
    /\ interval_summaries[1] # interval_summaries[2]

\* C10: when the merge of positions i and i+1 fails, the section at i is the
\* fixed concatenation holding all of summaries[i] and after it all of
\* summaries[i+1]; the section of every merge that answered is its answer,
\* at its own position; and the function returns all of them.
C10_FallbackKeepsBoth ==
    /\ \A c \in DOMAIN llm_calls :
          /\ c \in DOMAIN integrated_sections
          /\ llm_calls[c].failed =>
                /\ ContainsInOrder(integrated_sections[c], interval_summaries[c],
                                   interval_summaries[c + 1])
                /\ integrated_sections[c]
                      = FallbackSection(c - 1, interval_summaries[c],
                                        interval_summaries[c + 1])
          /\ ~llm_calls[c].failed => integrated_sections[c] = llm_calls[c].content
    /\ (s_pc = "done" /\ NumSummaries >= 2) =>
          /\ s_ret = integrated_sections
          /\ Len(s_ret) = NumSummaries - 1

\* C10's case: a failed merge over two different summaries, between or
\* before merges that answered
C10_Witness ==
    /\ s_pc = "done"
    /\ NumSummaries >= 3
    /\ \E c \in DOMAIN llm_calls :
          /\ llm_calls[c].failed
          /\ interval_summaries[c] # interval_summaries[c + 1]
          /\ \E d \in DOMAIN llm_calls : d # c /\ ~llm_calls[d].failed

(***************************************************************************)
(* Properties of analyze_chunk and of the records of the analysis stage.   *)
(***************************************************************************)
\* C11: on any failure of the Completer while analysing a chunk,
\* analyze_chunk does not raise: it returns a record with the chunk's index,
\* has_content = false, empty knowledge and the error field populated.
C11_CompleterFailureReturnsErrorRecord ==
    (a_pc \in {"returned", "collected"} /\ a_outcome.llm = "error") =>
        /\ ~a_future.raised
        /\ a_future.ret.chunk_idx = a_chunk_idx
        /\ ~a_future.ret.has_content
        /\ a_future.ret.knowledge = <<>>
        /\ a_future.ret.error # NoValue

\* the file under the chunk's key holds the record `rec` (index, has_content
\* and knowledge)
Persisted(dir, key, rec) ==
    /\ key \in DOMAIN dir
    /\ dir[key] # TruncatedJson
    /\ dir[key].chunk_idx = rec.chunk_idx
    /\ dir[key].has_content = rec.has_content
    /\ dir[key].knowledge = rec.knowledge

\* C17: every record the analysis stage returns for a chunk, success or
\* error, is in the store under the key of its chunk index and equals the
\* returned one; an extraction that succeeded with content is returned with
\* its content, whatever the persistence step did.
C17_ReturnedRecordIsPersisted ==
    a_pc = "collected" =>
        /\ Persisted(knowledge_dir, ChunkKey(a_chunk_idx, depth), results[1])
        /\ (a_outcome.llm = "reply" /\ a_outcome.shape = <<TRUE, 2>>) =>
              /\ results[1].has_content
              /\ results[1].knowledge = KnowledgeOf(a_chunk_idx, 2)

\* C18: every record of the analysis stage (success path, Completer-failure
\* path, fallback path of process_chunks) has empty knowledge when
\* has_content is false, and the record returned at position i of the
\* result carries chunk_idx = i, the position of its chunk in `chunks`.
C18_RecordInvariant ==
    /\ \A p \in DOMAIN results :
          /\ ~results[p].has_content => results[p].knowledge = <<>>
          /\ results[p].chunk_idx \in 0..(Len(chunks) - 1)
    /\ p_pc = "done" =>
          /\ Len(p_ret) = Len(chunks)
          /\ \A p \in DOMAIN p_ret :
                /\ p_ret[p].chunk_idx = p - 1
                /\ ~p_ret[p].has_content => p_ret[p].knowledge = <<>>

\* C18's case: the returned list holds a record of each path with
\* has_content false: a reply without content, a Completer failure and the
\* fallback of process_chunks
C18_Witness ==
    /\ p_pc = "done"
    /\ \E a, b, c \in DOMAIN p_ret :
          /\ ~p_ret[a].has_content /\ p_ret[a].error = NoValue
          /\ p_ret[b].error = "llm error" /\ p_ret[b].depth = depth
          /\ p_ret[c].error = "io error" /\ p_ret[c].depth = NoValue

(***************************************************************************)
(* Properties of the interval summaries under Completer failures.          *)
(***************************************************************************)
\* C12: when the Completer fails for an interval group, the summary returned
\* for that group is the locally generated error placeholder (not an empty
\* or missing entry), and the summaries of the other groups are still
\* produced: the list has one entry per group and the entry of a group
\* whose call answered is that answer.
C12_FailedGroupGetsPlaceholder ==
    g_pc = "done" =>
        /\ Len(g_ret) = Len(interval_knowledge_groups)
        /\ \A idx \in DOMAIN g_task :
              IF g_task[idx].llm_failed
              THEN g_ret[idx + 1] = SummaryErrorText
              ELSE g_ret[idx + 1] = g_task[idx].ret

(***************************************************************************)
(* Properties of load_all_results.                                         *)
(***************************************************************************)
\* C16: for any records persisted in any write order, with artifacts of
\* several depths in the store and writes cut short, load_all_results
\* returns the records in ascending chunk index with no index appearing
\* more than once, and the next call returns the same sequence.
C16_LoadSortedNoDuplicates ==
    l_pc = "reloaded" =>
        /\ \A p, q \in DOMAIN l_ret :
              p < q => l_ret[p].chunk_idx < l_ret[q].chunk_idx
        /\ l_again = l_ret

(***************************************************************************)
(* Properties of generate_meta_summary.                                    *)
(***************************************************************************)
\* the texts with sep between every two neighbours
RECURSIVE Interleaved(_, _)
Interleaved(texts, sep) ==
    IF Len(texts) <= 1 THEN Flatten(texts)
    ELSE Interleaved(SubSeq(texts, 1, Len(texts) - 1), sep)
         \o sep \o texts[Len(texts)]

\* C19: a call of generate_meta_summary that read its summaries makes one
\* Completer call, over all of them joined with the fixed separator, and
\* none when there are no summaries; when the Completer fails it returns
\* the empty string, does not raise, and leaves the meta-summary directory
\* as it was.
C19_MetaSummarySingleCall ==
    [][(ms_pc = "call" /\ ms_pc' # "call") =>
          /\ ms_pc' = "returned" =>
                /\ Len(meta_calls') =
                      (IF AllSummaries(summary_dir) = <<>> THEN 0 ELSE 1)
                /\ \A p \in DOMAIN meta_calls' :
                      meta_calls'[p] =
                          <<"meta-summary-request:\n\n">>
                          \o Interleaved(AllSummaries(summary_dir), <<"\n\n---\n\n">>)
                /\ AllSummaries(summary_dir) = <<>> => ms_ret' = <<>>
          /\ ms_kind' = "llm_error" =>
                /\ ms_pc' = "returned"
                /\ ms_ret' = <<>>
                /\ meta_dir' = meta_dir
                /\ Len(meta_calls') = 1
    ]_vars

\* C19's case: the Completer failed on the one call made over three
\* summaries (interval and final), and the meta-summary of an earlier run is
\* still the only artifact
C19_Witness ==
    /\ ms_pc = "returned"
    /\ ms_kind = "llm_error"
    /\ ms_ret = <<>>
    /\ Len(AllSummaries(summary_dir)) >= 3
    /\ FinalSummaryKey(1) \in DOMAIN summary_dir
    /\ Len(meta_calls) = 1
    /\ meta_dir \in StaleMetaDirs \ {<<>>}

(***************************************************************************)
(* Properties of the stages of main that follow the interval summaries.    *)
(***************************************************************************)
\* `consumed` is the returned list `returned`: one entry per returned
\* summary, in the same order, each entry the summary itself or the file
\* text _save_interval_summary writes for it
IsStageOutput(consumed, returned) ==
    /\ Len(consumed) = Len(returned)
    /\ \A p \in DOMAIN consumed :
          \/ consumed[p] = returned[p]
          \/ consumed[p] = IntervalSummaryFile(returned[p], p, Now)

\* C14: the interval summaries consumed by the sliding-window integration,
\* and those consumed by generate_meta_summary, are the list that
\* generate_interval_summaries returned in this run: one entry per returned
\* summary, in the same order, none missing and none from elsewhere.
C14_ConsumedSummariesAreStageOutput ==
    /\ ms_pc = "returned" => IsStageOutput(AllSummaries(summary_dir), g_ret)
    /\ o_pc \in {"sliding", "done"} => IsStageOutput(interval_summaries, g_ret)

\* C20: whenever generate_meta_summary returned the empty string, the
\* integration uses the fixed placeholder as the meta-summary content.
C20_EmptyMetaSummaryGetsPlaceholder ==
    (o_pc \in {"sliding", "done"} /\ ms_ret = <<>>) =>
        meta_summary_content = MetaPlaceholder

(***************************************************************************)
(* Properties of main.                                                     *)
(***************************************************************************)
\* C13: with a valid configuration and an existing input file, whatever the
\* Completer failures, the run of main passes through every stage and ends
\* with the final report written: when main has ended, the interval
\* summaries, the meta-summary and the integration have run and the report
\* file is in the integrated directory.
C13_RunEndsWithReport ==
    m_pc \in {"done", "ended"} =>
        /\ p_pc = "done"
        /\ g_pc = "done"
        /\ ms_pc = "returned"
        /\ o_pc = "done"
        /\ IntegratedKey(AnalysisDepth) \in DOMAIN integrated_dir

\* C15: no interval-summary generation starts before every chunk analysis
\* of the run has completed, and neither the meta-summary generation nor
\* the integration starts before every interval-summary task has completed.
C15_StageBarriers ==
    /\ (m_pc # "process_chunks" \/ g_pc \in {"group", "collect", "done"}) =>
          /\ p_pc \in {"done", "off"}
          /\ \A chunk_idx \in DOMAIN p_task :
                p_task[chunk_idx].state = "collected"
    /\ (ms_pc \in {"call", "returned", "raised"}
            \/ o_pc \in {"call", "sliding", "done"}) =>
          /\ g_pc = "done"
          /\ \A idx \in DOMAIN g_task : g_task[idx].state = "collected"

\* C15's case: the integration has started after two interval-summary tasks
\* completed out of submission order, one of them with a failed Completer
\* call
C15_Witness ==
    /\ o_pc = "sliding"
    /\ Len(summaries) >= 2
    /\ summaries[1][1] > summaries[2][1]
    /\ \E idx \in DOMAIN g_task : g_task[idx].llm_failed
    /\ \A idx \in DOMAIN g_task : g_task[idx].state = "collected"

(***************************************************************************)
(* Properties of _assemble_final_content.                                  *)
(***************************************************************************)
\* the tokens of a list of texts


\* the tokens of a text
Tokens(text) == {text[p] : p \in DOMAIN text}

\* the fixed text of a report: title, separators and headings
ReportLiterals ==
    {"# ", "base_name", " - report-title", "\n---\n", "## content-heading",
     "\n", "\n\n"}

\* C21: two calls of _assemble_final_content with the same arguments return
\* the same text, and every part of the text comes from the toc, the
\* introduction or the sections handed over, or from the fixed text around
\* the document's base name: no time of the call is in it.
C21_AssemblyDeterministic ==
    \A i \in DOMAIN r_outs :
        /\ \A j \in DOMAIN r_outs : r_outs[i] = r_outs[j]
        /\ Tokens(r_outs[i]) \subseteq
              Tokens(r_toc_content) \cup Tokens(r_introduction)
              \cup UNION {Tokens(r_sections[q]) : q \in DOMAIN r_sections}
              \cup ReportLiterals
        /\ \A t \in 0..r_clock : ToString(t) \notin Tokens(r_outs[i])

\* C21's case: two calls at different times over sections, both returned
C21_Witness ==
    /\ Len(r_outs) >= 2
    /\ r_clock >= 2
    /\ Len(r_sections) >= 2
    /\ r_introduction # <<>>

\* the report laid out part by part: each part is followed by a blank line
\* but the last, and each section by a line break of its own
ReportLayout(toc, introduction, sections) ==
    <<"# ", "base_name", " - report-title", "\n\n">>
    \o toc \o <<"\n\n", "\n---\n", "\n\n">>
    \o introduction \o <<"\n\n", "\n---\n", "\n\n", "## content-heading">>
    \o Flatten([q \in DOMAIN sections |-> <<"\n\n">> \o sections[q] \o <<"\n\n", "\n">>])

\* C22: the report is the title heading, the toc, a separator, the
\* introduction, a separator, the content heading and then every section
\* once, in the order handed over; without sections it ends with the content
\* heading.
C22_ReportLayout ==
    \A i \in DOMAIN r_outs :
        /\ r_outs[i] = ReportLayout(r_toc_content, r_introduction, r_sections)
        /\ r_sections = <<>> => r_outs[i][Len(r_outs[i])] = "## content-heading"

\* C22's case: a report over two different sections
C22_Witness ==
    /\ Len(r_outs) >= 1
    /\ Len(r_sections) = 2
    /\ r_sections[1] # r_sections[2]
    /\ r_toc_content = <<"toc">>

\* C23: the report returned by integrate_output has the toc placeholder in
\* the place of a toc that is missing or empty, and the fixed introduction
\* in the place of an introduction whose Completer call failed or answered
\* with empty text.
C23_MissingInputGetsPlaceholder ==
    (o_pc = "done" /\ o_ret # <<>>) =>
        LET toc   == IF ReadFile(toc_dir, TocKey) = <<>> THEN TocPlaceholder
                     ELSE ReadFile(toc_dir, TocKey)
            intro == IF o_intro.kind = "llm_error" \/ Strip(o_intro.content) = <<>>
                     THEN IntroFallback
                     ELSE Strip(o_intro.content)
        IN  o_ret = ReportLayout(toc, intro, s_ret)

(***************************************************************************)
(* Properties of the worker pools of the two parallel stages.              *)
(***************************************************************************)
\* C25: the work items of a stage write pairwise distinct artifact keys
\* (chunk keys in the chunk analysis, interval keys in the summary
\* generation), and what the store holds under the key of a work item was
\* written for that item: no work item wrote over the artifact of another.
C25_WorkersWriteDistinctKeys ==
    /\ \A a \in DOMAIN p_task, b \in DOMAIN p_task :
          a # b => ChunkKey(a, depth) # ChunkKey(b, depth)
    /\ \A a \in DOMAIN g_task, b \in DOMAIN g_task :
          a # b => IntervalSummaryKey(g_task[a].interval_num)
                   # IntervalSummaryKey(g_task[b].interval_num)
    /\ \A a \in DOMAIN p_task :
          ChunkKey(a, depth) \in DOMAIN knowledge_dir =>
              LET rec == knowledge_dir[ChunkKey(a, depth)]
              IN  IF rec = TruncatedJson THEN TRUE ELSE rec.chunk_idx = a
    /\ \A a \in DOMAIN g_task :
          LET n == g_task[a].interval_num
          IN  IntervalSummaryKey(n) \in DOMAIN summary_dir =>
                  summary_dir[IntervalSummaryKey(n)]
                      \in {<<>>, <<"stale#1">>}
                          \cup {IntervalSummaryFile(c, n, Now) : c \in SummaryReplies(n)}

\* C25's case: two chunk analyses ran at the same time; one has written its
\* record and the other is still running
C25_Witness ==
    /\ max_workers >= 2
    /\ \E a \in DOMAIN p_task, b \in DOMAIN p_task :
          /\ a # b
          /\ p_task[a].state = "running"
          /\ p_task[b].state = "finished"
          /\ ChunkKey(b, depth) \in DOMAIN knowledge_dir

\* C27: in the chunk analysis and in the summary generation at most
\* max_workers work items are executing, so at most max_workers Completer
\* calls are outstanding (a work item makes its calls one at a time).
C27_AtMostMaxWorkersRunning ==
    /\ Cardinality(Running(p_task)) <= max_workers
    /\ Cardinality(Running(g_task)) <= max_workers

\* C27's case: the pool of one worker is busy with a summary while another
\* work item waits in the queue
C27_Witness ==
    /\ max_workers = 1
    /\ Cardinality(Running(g_task)) = 1
    /\ Queued(g_task) # {}

(***************************************************************************)
(* Properties of generate_interval_summary and the store.                  *)
(***************************************************************************)
\* C30: once generate_interval_summary(knowledge, N) has returned the empty
\* string, the store holds under N nothing but what was there before the
\* call: no artifact, or the artifact an earlier run left.  An artifact of
\* this call is there only when the call returned a non-empty summary.
C30_ArtifactOnlyForReturnedSummary ==
    \A idx \in DOMAIN g_task :
        LET key == IntervalSummaryKey(g_task[idx].interval_num)
        IN  (g_task[idx].state \in {"finished", "collected"} /\ g_task[idx].ret = <<>>)
                => (key \in DOMAIN summary_dir => summary_dir[key] = <<"stale#1">>)

(***************************************************************************)
(* Properties of the artifact keys.                                        *)
(***************************************************************************)
\* C29: of two chunk indices, or two interval numbers, a < b written by a
\* run, the sorted listing of the directory yields the key of a before the
\* key of b: the files are read back in numeric order.
C29_KeyOrderIsNumericOrder ==
    k_pc = "done" =>
        k_listing = IF k_kind = "interval"
                    THEN <<IntervalSummaryKey(k_nums[1]), IntervalSummaryKey(k_nums[2])>>
                    ELSE <<ChunkKey(k_nums[1], depth), ChunkKey(k_nums[2], depth)>>

(***************************************************************************)
(* Properties of main under storage failures.                              *)
(***************************************************************************)
\* C26: a summary file that cannot be read does not end the run: the
\* failure is absorbed, and main goes on to integrate_output.
C26_StorageFailureAbsorbed ==
    ms_kind = "read_error" =>
        /\ ms_pc # "raised"
        /\ m_pc \notin {"except", "ended"}

(***************************************************************************)
(* Properties of main and its parameters.                                  *)
(***************************************************************************)
\* the parameter combinations that are invalid
InvalidParameters ==
    \/ chunk_overlap >= chunk_size
    \/ interval < 1
    \/ max_workers < 1

\* C24: a run with an invalid parameter combination (overlap >= chunk size,
\* interval < 1, workers < 1) does no work: no document processing, no
\* Completer call and no artifact write happen before it is rejected.
C24_InvalidParametersRejectedFirst ==
    InvalidParameters =>
        /\ work_log = <<>>
        /\ toc_dir = <<>>
        /\ m_pc # "process_chunks"

(***************************************************************************)
(* Properties of an interrupted run.                                       *)
(***************************************************************************)
\* C28: once the interrupt has arrived during the chunk analysis, a work
\* item that had not started is never begun, and every artifact in the
\* store is a complete record under its own key.
C28_InterruptStopsNewWork ==
    p_interrupt.arrived =>
        /\ \A chunk_idx \in p_interrupt.not_started :
              p_task[chunk_idx].state = "queued"
        /\ \A key \in DOMAIN knowledge_dir :
              /\ knowledge_dir[key] # TruncatedJson
              /\ key = ChunkKey(knowledge_dir[key].chunk_idx, depth)

\* C31: the text _assemble_final_content returns is the same for every
\* meta_summary value, the toc, the introduction and the sections being
\* fixed; nothing of the meta-summary handed over is in it unless the other
\* arguments or the fixed text hold it too.
C31_ReportIgnoresMetaSummary ==
    \A i \in DOMAIN r_outs :
        /\ \A m \in {MetaPlaceholder, <<"meta">>, <<"other", "meta">>, <<>>} :
              r_outs[i] = AssembleFinalContent(r_toc_content, r_introduction,
                                               r_sections, m)
        /\ Tokens(r_outs[i]) \cap Tokens(r_meta_summary) \subseteq
              Tokens(r_toc_content) \cup Tokens(r_introduction)
              \cup UNION {Tokens(r_sections[q]) : q \in DOMAIN r_sections}
              \cup ReportLiterals

\* C31's case: a report was assembled with a meta-summary at hand that is
\* no placeholder, next to a toc, an introduction and a section
C31_Witness ==
    /\ Len(r_outs) >= 1
    /\ r_meta_summary = <<"meta">>
    /\ r_introduction = <<"introduction">>
    /\ Len(r_sections) >= 1

\* C35: a generate_final_summary call that returns a summary wrote it under
\* a number no final summary of the directory had, and left every file the
\* directory held as it was, whatever final summaries were there before.
C35_FinalSummaryNeverOverwritten ==
    \A i \in DOMAIN f_log :
        f_log[i].ret # <<>> =>
            LET after == IF i = Len(f_log) THEN summary_dir
                         ELSE f_log[i + 1].before
            IN  /\ f_log[i].key \notin DOMAIN f_log[i].before
                /\ f_log[i].key \in DOMAIN after
                /\ \A k \in DOMAIN f_log[i].before :
                      after[k] = f_log[i].before[k]

\* C33: _make_request_with_retry makes at most PDF_API_RETRY_COUNT attempts;
\* no attempt follows a successful one, whose response is the one returned;
\* when attempts were made and all failed, every one of the
\* PDF_API_RETRY_COUNT attempts was made and the exception raised is that of
\* the last one.
C33_RetryBoundedFirstSuccessLastError ==
    /\ Len(q_log) <= PDF_API_RETRY_COUNT
    /\ \A i \in 1..(Len(q_log) - 1) : q_log[i] # "ok"
    /\ q_pc = "returned" <=> (q_log # <<>> /\ q_log[Len(q_log)] = "ok")
    /\ q_pc = "returned" =>
          q_ret = [kind |-> "response", attempt |-> Len(q_log) - 1]
    /\ (q_pc = "raised" /\ q_log # <<>>) =>
          /\ Len(q_log) = PDF_API_RETRY_COUNT
          /\ q_ret = [kind |-> q_log[Len(q_log)], attempt |-> Len(q_log) - 1]

\* C33's case: every attempt failed, the first and the last one differently,
\* and the call raised
C33_Witness ==
    /\ q_pc = "raised"
    /\ PDF_API_RETRY_COUNT >= 2
    /\ Len(q_log) = PDF_API_RETRY_COUNT
    /\ q_log[1] # q_log[Len(q_log)]

\* C32: whatever the status queries answer, _wait_for_completion comes to
\* its return or to a raise.
C32_PollingTerminates == <>(w_pc \in {"returned", "raised"})

\* in finite runs: once the timeout has passed, at most one more status
\* query begins
PollingStopsAfterTimeout == w_late <= 1

\* C34: the type UnifiedPDFConverter reports is "local" exactly when the
\* instance it holds is a local converter, after construction and after
\* every switch call; and a switch to the mode that was active left the
\* instance and both stored options as they were.
C34_TypeAgreesWithConverter ==
    /\ (GetConverterType = "local") <=> (converter.class = "local")
    /\ ((u_last.call = "switch_to_local" /\ u_last.use_local)
        \/ (u_last.call = "switch_to_server" /\ ~u_last.use_local)) =>
          /\ converter = u_last.converter
          /\ local_options = u_last.local_options
          /\ server_options = u_last.server_options
          /\ use_local = u_last.use_local

=============================================================================
